---- MODULE Spec2Model ----
(***************************************************************************)
(* Northroot kernel: the append-only journal (frame.rs, writer.rs,         *)
(* reader.rs) and the evidence verifier (verification.rs).                 *)
(*                                                                         *)
(* A journal file is a sequence of bytes (naturals below 256).  JSON       *)
(* values are records tagged by t; strings are sequences of bytes.         *)
(***************************************************************************)
EXTENDS Integers, Sequences, FiniteSets, TLC

VARIABLES
    file,            \* bytes of the journal file
    wpc,             \* writer: "none" | "idle" | "frame" | "payload" | "finished"
    wpos,            \* writer: cursor of its file handle
    wbuf,            \* writer: bytes of the write_all in progress, not yet written
    wpayload,        \* writer: payload still to be written after the frame header
    header_written,  \* writer: JournalWriter.header_written
    wres,            \* result of the last writer call: "ok" or an error name
    journal,         \* history: the records appended and still in the file
    base,            \* history: the file as it was before the latest open
    cut,             \* history: number of trailing bytes deleted (0: none)
    rpc,             \* reader: "none" | "idle" | "header" | "payload"
    rmode,           \* reader: "Strict" | "Permissive"
    position,        \* reader: JournalReader.position
    rframe,          \* reader: header of the frame whose payload is being read
    rout,            \* results of the completed read_event calls
    sessions,        \* history: number of writer opens so far
    nbase,           \* history: number of records in the file at the latest open
    wappend,         \* history: options.append of the latest open
    exec,            \* verifier input: the execution event
    auth,            \* verifier input: the authorization event
    conv,            \* verifier input: Option<&ConversionContext>
    event,           \* verifier input: the event of a call that takes one event
    verdict          \* verifier output: the computed id and the verdict

jvars == <<file, wpc, wpos, wbuf, wpayload, header_written, wres, journal, base, cut,
           rpc, rmode, position, rframe, rout, sessions, nbase, wappend>>
vvars == <<exec, auth, conv, event, verdict>>
vars == <<file, wpc, wpos, wbuf, wpayload, header_written, wres, journal, base, cut,
          rpc, rmode, position, rframe, rout, sessions, nbase, wappend,
          exec, auth, conv, event, verdict>>

(***************************************************************************)
(* Bounds of the model.                                                    *)
(***************************************************************************)
MaxRecords == 2      \* records appended over the life of a file
MaxSessions == 2     \* writer sessions (open .. finish) on one file
MaxReads == 3        \* read_event calls of one reader
MaxDigits == 2       \* digits of an integer string
MaxScale == 2        \* scale of a dec quantity (the grammar allows 0..=18)
MaxMeters == 2       \* length of meter_used
MaxHeight == 2       \* heights of a checkpoint's window
MaxMembers == 2      \* members of a JSON event handed to the event id functions

(***************************************************************************)
(* Sequences of bytes.                                                     *)
(***************************************************************************)
Take(s, n) == SubSeq(s, 1, IF n < Len(s) THEN n ELSE Len(s))
Drop(s, n) == SubSeq(s, n + 1, Len(s))
Zeros(n) == [i \in 1..n |-> 0]
IsPrefix(s, t) == Len(s) <= Len(t) /\ SubSeq(t, 1, Len(s)) = s
Range(s) == {s[i] : i \in 1..Len(s)}

\* a.cmp(b) on strings: byte-wise lexicographic order
RECURSIVE StrCmp(_, _)
StrCmp(a, b) ==
    IF a = <<>> /\ b = <<>> THEN "Equal"
    ELSE IF a = <<>> THEN "Less"
    ELSE IF b = <<>> THEN "Greater"
    ELSE IF a[1] < b[1] THEN "Less"
    ELSE IF a[1] > b[1] THEN "Greater"
    ELSE StrCmp(Tail(a), Tail(b))

(***************************************************************************)
(* frame.rs: constants, header and frame encodings.                        *)
(***************************************************************************)
MAGIC == <<78, 82, 74, 49>>
VERSION == 1
HEADER_SIZE == 16
FRAME_HEADER_SIZE == 8
MAX_PAYLOAD_SIZE == 16777216
FRAME_KIND_EVENT_JSON == 1

\* payload.len() as u32; every payload of the model is shorter than 2^32 bytes
AsU32(n) == n

Le16(n) == <<n % 256, (n \div 256) % 256>>
Le32(n) == <<n % 256, (n \div 256) % 256, (n \div 65536) % 256, (n \div 16777216) % 256>>
FromLe16(b) == b[1] + 256 * b[2]
FromLe32(b) == b[1] + 256 * b[2] + 65536 * b[3] + 16777216 * b[4]

\* u32::from_le_bytes(b) > max, for max = 2^24, decided on the bytes
Le32Exceeds(b, max) ==
    \/ b[4] > max \div 16777216
    \/ b[4] = max \div 16777216 /\ b[1] + 256 * b[2] + 65536 * b[3] > max % 16777216

\* JournalHeader::new().to_bytes()
HeaderToBytes == MAGIC \o Le16(VERSION) \o Le16(0) \o Zeros(8)

\* mutant: the reserved bytes are not looked at
HeaderFromBytes_AnyReserved(bytes) ==
    /\ Len(bytes) >= HEADER_SIZE
    /\ SubSeq(bytes, 1, 4) = MAGIC
    /\ FromLe16(SubSeq(bytes, 5, 6)) = VERSION
    /\ FromLe16(SubSeq(bytes, 7, 8)) = 0

\* JournalHeader::from_bytes: TRUE iff Ok
HeaderFromBytes(bytes) ==
    /\ Len(bytes) >= HEADER_SIZE
    /\ SubSeq(bytes, 1, 4) = MAGIC
    /\ FromLe16(SubSeq(bytes, 5, 6)) = VERSION
    /\ FromLe16(SubSeq(bytes, 7, 8)) = 0
    /\ SubSeq(bytes, 9, 16) = Zeros(8)

\* RecordFrame::new: Ok iff the length fits
RecordFrameNew(kind, len) ==
    IF len > MAX_PAYLOAD_SIZE
    THEN [ok |-> FALSE, kind |-> kind, len |-> len]
    ELSE [ok |-> TRUE, kind |-> kind, len |-> len]

\* RecordFrame::to_bytes
FrameToBytes(frame) == <<frame.kind, 0, 0, 0>> \o Le32(frame.len)

\* mutant: a reader that takes every kind but EventJson for an invalid frame
FrameFromBytes_KnownOnly(bytes) ==
    IF Len(bytes) < FRAME_HEADER_SIZE \/ SubSeq(bytes, 2, 4) # Zeros(3)
       \/ bytes[1] # FRAME_KIND_EVENT_JSON
    THEN [ok |-> FALSE, kind |-> 0, len |-> 0]
    ELSE IF Le32Exceeds(SubSeq(bytes, 5, 8), MAX_PAYLOAD_SIZE)
    THEN [ok |-> FALSE, kind |-> 0, len |-> 0]
    ELSE [ok |-> TRUE, kind |-> bytes[1], len |-> FromLe32(SubSeq(bytes, 5, 8))]

\* RecordFrame::from_bytes on 8 bytes
FrameFromBytes(bytes) ==
    IF Len(bytes) < FRAME_HEADER_SIZE \/ SubSeq(bytes, 2, 4) # Zeros(3)
    THEN [ok |-> FALSE, kind |-> 0, len |-> 0]
    ELSE IF Le32Exceeds(SubSeq(bytes, 5, 8), MAX_PAYLOAD_SIZE)
    THEN [ok |-> FALSE, kind |-> 0, len |-> 0]
    ELSE [ok |-> TRUE, kind |-> bytes[1], len |-> FromLe32(SubSeq(bytes, 5, 8))]

\* the bytes append_raw writes for (kind, payload): 8-byte frame header, then payload
FrameBytes(kind, payload) ==
    FrameToBytes(RecordFrameNew(kind, AsU32(Len(payload)))) \o payload

(***************************************************************************)
(* event.rs: EventJson = serde_json::Value.  serde_json::to_vec writes the *)
(* compact form; from_utf8 + from_str read it back.                        *)
(***************************************************************************)
JNum(n) == [t |-> "num", n |-> n]
JStr(s) == [t |-> "str", s |-> s]
JObj(m) == [t |-> "obj", m |-> m]
JArr(a) == [t |-> "arr", a |-> a]
NoEvent == [t |-> "absent"]

RECURSIVE Digits(_)
Digits(n) == IF n < 10 THEN <<48 + n>> ELSE Digits(n \div 10) \o <<48 + (n % 10)>>

\* a JSON string literal: quotes and backslashes are escaped
RECURSIVE Escaped(_)
Escaped(s) ==
    IF \A i \in 1..Len(s) : s[i] \notin {34, 92} THEN s
    ELSE (IF s[1] \in {34, 92} THEN <<92, s[1]>> ELSE <<s[1]>>) \o Escaped(Tail(s))
Quoted(s) == <<34>> \o Escaped(s) \o <<34>>

RECURSIVE ToVec(_)
RECURSIVE MembersToVec(_)
RECURSIVE ItemsToVec(_)
MembersToVec(m) ==
    IF m = <<>> THEN <<>>
    ELSE (IF Len(m) > 1 THEN MembersToVec(Take(m, Len(m) - 1)) \o <<44>> ELSE <<>>)
         \o Quoted(m[Len(m)].k) \o <<58>> \o ToVec(m[Len(m)].v)
ItemsToVec(a) ==
    IF a = <<>> THEN <<>>
    ELSE (IF Len(a) > 1 THEN ItemsToVec(Take(a, Len(a) - 1)) \o <<44>> ELSE <<>>)
         \o ToVec(a[Len(a)])
ToVec(v) ==
    CASE v.t = "num" -> Digits(v.n)
      [] v.t = "str" -> Quoted(v.s)
      [] v.t = "obj" -> <<123>> \o MembersToVec(v.m) \o <<125>>
      [] v.t = "arr" -> <<91>> \o ItemsToVec(v.a) \o <<93>>

(***************************************************************************)
(* canonicalizer.rs, event_id.rs: canonical bytes and event ids of JSON    *)
(* values.  An object holds its members in the order its map iterates      *)
(* them; its keys are distinct.                                            *)
(***************************************************************************)
\* Map::get
Get(v, key) ==
    IF v.t = "obj" /\ \E i \in 1..Len(v.m) : v.m[i].k = key
    THEN [some |-> TRUE, v |-> v.m[CHOOSE i \in 1..Len(v.m) : v.m[i].k = key].v]
    ELSE [some |-> FALSE]

\* Map::remove
Remove(m, key) == SelectSeq(m, LAMBDA x : x.k # key)

\* the members of an object sorted by key: m is sorted, x is put in its place
RECURSIVE InsertSorted(_, _)
InsertSorted(m, x) ==
    IF m = <<>> THEN <<x>>
    ELSE IF StrCmp(x.k, m[1].k) = "Less" THEN <<x>> \o m
    ELSE <<m[1]>> \o InsertSorted(Tail(m), x)

\* Map::insert (value[key] = x): an existing member is replaced in place, a new
\* one is added (here: last; the canonical bytes do not depend on the place)
Insert(m, key, x) ==
    IF \E i \in 1..Len(m) : m[i].k = key
    THEN [i \in 1..Len(m) |-> IF m[i].k = key THEN [k |-> key, v |-> x] ELSE m[i]]
    ELSE m \o <<[k |-> key, v |-> x]>>

\* the members of an object sorted by key (RFC 8785)
RECURSIVE SortMembers(_)
SortMembers(m) ==
    IF m = <<>> THEN <<>> ELSE InsertSorted(SortMembers(Tail(m)), m[1])

\* mutant: the members are emitted in the order the map holds them
RECURSIVE CanonicalString_Unsorted(_)
RECURSIVE CanonicalMembers_Unsorted(_)
RECURSIVE CanonicalItems_Unsorted(_)
CanonicalMembers_Unsorted(m) ==
    IF m = <<>> THEN <<>>
    ELSE Quoted(m[1].k) \o <<58>> \o CanonicalString_Unsorted(m[1].v)
         \o (IF Len(m) > 1 THEN <<44>> \o CanonicalMembers_Unsorted(Tail(m)) ELSE <<>>)
CanonicalItems_Unsorted(a) ==
    IF a = <<>> THEN <<>>
    ELSE CanonicalString_Unsorted(a[1])
         \o (IF Len(a) > 1 THEN <<44>> \o CanonicalItems_Unsorted(Tail(a)) ELSE <<>>)
CanonicalString_Unsorted(v) ==
    CASE v.t = "num" -> Digits(v.n)
      [] v.t = "str" -> Quoted(v.s)
      [] v.t = "obj" -> <<123>> \o CanonicalMembers_Unsorted(v.m) \o <<125>>
      [] v.t = "arr" -> <<91>> \o CanonicalItems_Unsorted(v.a) \o <<93>>

\* canonical_json::to_string
RECURSIVE CanonicalString(_)
RECURSIVE CanonicalMembers(_)
RECURSIVE CanonicalItems(_)
CanonicalMembers(m) ==
    IF m = <<>> THEN <<>>
    ELSE Quoted(m[1].k) \o <<58>> \o CanonicalString(m[1].v)
         \o (IF Len(m) > 1 THEN <<44>> \o CanonicalMembers(Tail(m)) ELSE <<>>)
CanonicalItems(a) ==
    IF a = <<>> THEN <<>>
    ELSE CanonicalString(a[1])
         \o (IF Len(a) > 1 THEN <<44>> \o CanonicalItems(Tail(a)) ELSE <<>>)
CanonicalString(v) ==
    CASE v.t = "num" -> Digits(v.n)
      [] v.t = "str" -> Quoted(v.s)
      [] v.t = "obj" -> <<123>> \o CanonicalMembers(SortMembers(v.m)) \o <<125>>
      [] v.t = "arr" -> <<91>> \o CanonicalItems(v.a) \o <<93>>

\* Canonicalizer::validate: the numbers of the model are finite and its strings
\* valid, so validation passes
RECURSIVE validate(_)
validate(v) ==
    CASE v.t = "obj" -> \A i \in 1..Len(v.m) : validate(v.m[i].v)
      [] v.t = "arr" -> \A i \in 1..Len(v.a) : validate(v.a[i])
      [] v.t = "num" -> TRUE
      [] v.t = "str" -> \A i \in 1..Len(v.s) : v.s[i] < 1114112

\* Canonicalizer::canonicalize
canonicalize(v) ==
    IF ~validate(v) THEN [ok |-> FALSE, bytes |-> <<>>]
    ELSE [ok |-> TRUE, bytes |-> CanonicalString(v)]

\* event_id.rs stringify_numbers
RECURSIVE stringify_numbers(_)
stringify_numbers(v) ==
    CASE v.t = "num" -> JStr(Digits(v.n))
      [] v.t = "arr" -> JArr([i \in 1..Len(v.a) |-> stringify_numbers(v.a[i])])
      [] v.t = "obj" -> JObj([i \in 1..Len(v.m) |->
                                 [k |-> v.m[i].k, v |-> stringify_numbers(v.m[i].v)]])
      [] OTHER -> v

\* SHA-256 and base64url of bytes, modelled as collision-free: each byte of the
\* input becomes two hexadecimal characters
HexChar(n) == IF n < 10 THEN 48 + n ELSE 87 + n
Hex(bytes) ==
    [i \in 1..(2 * Len(bytes)) |->
        IF i % 2 = 1 THEN HexChar(bytes[(i + 1) \div 2] \div 16)
        ELSE HexChar(bytes[i \div 2] % 16)]

\* the strings of the model, as bytes
STR_event_id == <<101, 118, 101, 110, 116, 95, 105, 100>>
STR_alg == <<97, 108, 103>>
STR_b64 == <<98, 54, 52>>
STR_sha256 == <<115, 104, 97, 45, 50, 53, 54>>
STR_event_type == <<101, 118, 101, 110, 116, 95, 116, 121, 112, 101>>
STR_test == <<116, 101, 115, 116>>

\* the hash of bytes under the event domain separator, base64url-encoded
EventHash(bytes) == <<101>> \o Hex(bytes)

\* digest.rs Digest (every digest of the model has the length of its hash)
Digest(b64) == [alg |-> "sha-256", b64 |-> b64]

\* serde_json::to_value(&Digest)
DigestToValue(dg) ==
    JObj(<<[k |-> STR_alg, v |-> JStr(STR_sha256)], [k |-> STR_b64, v |-> JStr(dg.b64)]>>)

\* serde_json::from_value::<Digest>: an object with alg "sha-256" and a string
\* b64; other members are ignored and b64 is not validated
DigestFromValue(v) ==
    IF /\ v.t = "obj"
       /\ Get(v, STR_alg).some /\ Get(v, STR_alg).v = JStr(STR_sha256)
       /\ Get(v, STR_b64).some /\ Get(v, STR_b64).v.t = "str"
    THEN [some |-> TRUE, v |-> Digest(Get(v, STR_b64).v.s)]
    ELSE [some |-> FALSE]

\* mutant: the event_id already in the event is hashed with the rest
value_compute_event_id_Keep(ev) ==
    IF ~canonicalize(stringify_numbers(ev)).ok THEN [ok |-> FALSE]
    ELSE [ok |-> TRUE, id |-> Digest(EventHash(canonicalize(stringify_numbers(ev)).bytes))]

\* event_id.rs compute_event_id, of a JSON value
value_compute_event_id(ev) ==
    LET stripped == IF ev.t = "obj" THEN JObj(Remove(ev.m, STR_event_id)) ELSE ev
        result == canonicalize(stringify_numbers(stripped))
    IN  IF ~result.ok THEN [ok |-> FALSE]
        ELSE [ok |-> TRUE, id |-> Digest(EventHash(result.bytes))]

\* event["event_id"] = serde_json::to_value(&event_id)
Stamp(ev, id) == JObj(Insert(ev.m, STR_event_id, DigestToValue(id)))

\* journal/src/verification.rs verify_event_id
verify_event_id(ev) ==
    LET claimed_id == IF Get(ev, STR_event_id).some
                      THEN DigestFromValue(Get(ev, STR_event_id).v)
                      ELSE [some |-> FALSE]
    IN  IF ~claimed_id.some THEN "InvalidJson"
        ELSE IF ~value_compute_event_id(ev).ok THEN "InvalidJson"
        ELSE IF claimed_id.v = value_compute_event_id(ev).id THEN "true"
        ELSE "false"


\* more strings of the events the commands build
STR_event_version == <<101, 118, 101, 110, 116, 95, 118, 101, 114, 115, 105, 111, 110>>
STR_one == <<49>>
STR_occurred_at == <<111, 99, 99, 117, 114, 114, 101, 100, 95, 97, 116>>
STR_timestamp == <<50, 48, 50, 52, 45, 48, 49, 45, 48, 49, 84, 48, 48, 58, 48, 48, 58, 48, 48, 90>>
STR_principal_id == <<112, 114, 105, 110, 99, 105, 112, 97, 108, 95, 105, 100>>
STR_principal == <<115, 101, 114, 118, 105, 99, 101, 58, 116, 101, 115, 116>>
STR_canonical_profile_id == <<99, 97, 110, 111, 110, 105, 99, 97, 108, 95, 112, 114, 111, 102, 105, 108, 101, 95, 105, 100>>
STR_profile == <<110, 111, 114, 116, 104, 114, 111, 111, 116, 45, 99, 97, 110, 111, 110, 105, 99, 97, 108, 45, 118, 49>>
STR_chain_tip_event_id == <<99, 104, 97, 105, 110, 95, 116, 105, 112, 95, 101, 118, 101, 110, 116, 95, 105, 100>>
STR_chain_tip_height == <<99, 104, 97, 105, 110, 95, 116, 105, 112, 95, 104, 101, 105, 103, 104, 116>>
STR_checkpoint == <<99, 104, 101, 99, 107, 112, 111, 105, 110, 116>>
STR_authorization == <<97, 117, 116, 104, 111, 114, 105, 122, 97, 116, 105, 111, 110>>

Member(key, value) == [k |-> key, v |-> value]

(***************************************************************************)
(* The events the commands build (checkpoint.rs, gen.rs, append.rs).       *)
(***************************************************************************)
\* checkpoint.rs: checkpoint_json, the checkpoint without its event_id
CheckpointJson(tip, height) ==
    JObj(<<Member(STR_event_type, JStr(STR_checkpoint)),
           Member(STR_event_version, JStr(STR_one)),
           Member(STR_occurred_at, JStr(STR_timestamp)),
           Member(STR_principal_id, JStr(STR_principal)),
           Member(STR_canonical_profile_id, JStr(STR_profile)),
           Member(STR_chain_tip_event_id, DigestToValue(tip)),
           Member(STR_chain_tip_height, JNum(height))>>)

\* checkpoint.rs: serde_json::to_value(&checkpoint), the CheckpointEvent with
\* its event_id first; prev_event_id, merkle_root and window are None and skipped
CheckpointValue(tip, height) ==
    JObj(<<Member(STR_event_id,
                  DigestToValue(value_compute_event_id(CheckpointJson(tip, height)).id))>>
         \o CheckpointJson(tip, height).m)

\* gen.rs derive_digest: a hash of seed, index and type, not of the event
derive_digest(seed, index, event_type) == <<103>> \o Hex(<<seed, index>> \o event_type)

\* gen.rs build_auth; the members after canonical_profile_id (intents, policy,
\* decision, authorization) are left out
build_auth(index, seed) ==
    JObj(<<Member(STR_event_id,
                  DigestToValue(Digest(derive_digest(seed, index, STR_authorization)))),
           Member(STR_event_type, JStr(STR_authorization)),
           Member(STR_event_version, JStr(STR_one)),
           Member(STR_occurred_at, JStr(STR_timestamp)),
           Member(STR_principal_id, JStr(STR_principal)),
           Member(STR_canonical_profile_id, JStr(STR_profile))>>)

\* gen.rs build_malformed
build_malformed ==
    JObj(<<Member(STR_event_id, DigestToValue(Digest([i \in 1..39 |-> 65]))),
           Member(STR_event_type, JStr(STR_authorization))>>)

\* the JSON documents handed to the append command
AppendInputs ==
    {JObj(<<Member(STR_event_type, JStr(STR_test))>>),
     JObj(<<Member(STR_event_type, JStr(STR_test)),
            Member(STR_event_id, DigestToValue(Digest(<<120>>)))>>),
     JObj(<<Member(<<97>>, JNum(1)), Member(STR_event_type, JStr(STR_test))>>)}

\* the events the append command writes for them
AppendedEvents == {Stamp(e, value_compute_event_id(e).id) : e \in AppendInputs}

\* the events gen writes: seed 0, at most MaxRecords authorizations
GenEvents == {build_auth(i, 0) : i \in 0..(MaxRecords - 1)} \cup {build_malformed}

\* the JSON values of the model: 1, {"a":1}
JsonValues == {JNum(1), JObj(<<[k |-> <<97>>, v |-> JNum(1)]>>)}

\* the chain tip the checkpoint command takes from one event (checkpoint.rs 34-38)
TipOf(ev) ==
    IF Get(ev, STR_event_id).some THEN DigestFromValue(Get(ev, STR_event_id).v)
    ELSE [some |-> FALSE]

\* the events the commands write: layer 0 holds the events of append, gen and
\* append_event, layer k + 1 the checkpoints whose chain tip is in layer k
RECURSIVE CommandEvents(_)
CommandEvents(k) ==
    IF k = 0 THEN JsonValues \cup AppendedEvents \cup GenEvents
    ELSE {CheckpointValue(TipOf(e).v, h) :
             e \in {x \in CommandEvents(k - 1) : TipOf(x).some}, h \in 1..MaxRecords}

\* the JSON texts a journal of the commands may hold, each with its value
CommandTexts ==
    {[b |-> ToVec(v), v |-> v] : v \in UNION {CommandEvents(k) : k \in 1..(MaxRecords - 1)}
                                         \cup AppendedEvents \cup GenEvents}

\* the length of the shortest of these texts
MinCommandText ==
    CHOOSE n \in {Len(x.b) : x \in CommandTexts} : \A x \in CommandTexts : n <= Len(x.b)

\* std::str::from_utf8, then serde_json::from_str
FromSlice(bytes) ==
    IF \E i \in 1..Len(bytes) : bytes[i] >= 128
    THEN [tag |-> "InvalidUtf8", ev |-> NoEvent]
    ELSE IF \E v \in JsonValues : ToVec(v) = bytes
    THEN [tag |-> "Some", ev |-> CHOOSE v \in JsonValues : ToVec(v) = bytes]
    ELSE IF Len(bytes) >= MinCommandText /\ \E x \in CommandTexts : x.b = bytes
    THEN [tag |-> "Some", ev |-> (CHOOSE x \in CommandTexts : x.b = bytes).v]
    ELSE [tag |-> "JsonParse", ev |-> NoEvent]

(***************************************************************************)
(* reader.rs: read_frame and read_event as functions of the file, the      *)
(* reader's position and its mode.  The result carries the new position.   *)
(***************************************************************************)
\* mutant: truncation is end of file in both modes
Truncation_AlwaysNone(mode) == "None"

\* the result of a short read (reader.rs 110-117, 135-142)
Truncation(mode) == IF mode = "Permissive" THEN "None" ELSE "TruncatedFrame"

\* mutant: position is advanced by half a frame header
ReadHeaderAt_ShortAdvance(f, pos, mode) ==
    IF pos >= Len(f)
    THEN [tag |-> "None", kind |-> 0, len |-> 0, pos |-> pos]
    ELSE IF Len(f) - pos < FRAME_HEADER_SIZE
    THEN [tag |-> Truncation(mode), kind |-> 0, len |-> 0, pos |-> pos]
    ELSE LET frame == FrameFromBytes(SubSeq(f, pos + 1, pos + FRAME_HEADER_SIZE))
         IN  IF ~frame.ok
             THEN [tag |-> "InvalidFrame", kind |-> 0, len |-> 0, pos |-> pos]
             ELSE [tag |-> "Header", kind |-> frame.kind, len |-> frame.len,
                   pos |-> pos + FRAME_HEADER_SIZE \div 2]

\* read_frame up to and including the frame header (reader.rs 98-129)
ReadHeaderAt(f, pos, mode) ==
    IF pos >= Len(f)
    THEN [tag |-> "None", kind |-> 0, len |-> 0, pos |-> pos]
    ELSE IF Len(f) - pos < FRAME_HEADER_SIZE
    THEN [tag |-> Truncation(mode), kind |-> 0, len |-> 0, pos |-> pos]
    ELSE LET frame == FrameFromBytes(SubSeq(f, pos + 1, pos + FRAME_HEADER_SIZE))
         IN  IF ~frame.ok
             THEN [tag |-> "InvalidFrame", kind |-> 0, len |-> 0, pos |-> pos]
             ELSE [tag |-> "Header", kind |-> frame.kind, len |-> frame.len,
                   pos |-> pos + FRAME_HEADER_SIZE]

\* mutant: position is not advanced past the payload
ReadPayloadAt_NoAdvance(f, pos, frame, mode) ==
    IF Len(f) - pos < frame.len
    THEN [tag |-> Truncation(mode), kind |-> frame.kind, payload |-> <<>>, pos |-> pos]
    ELSE [tag |-> "Frame", kind |-> frame.kind,
          payload |-> SubSeq(f, pos + 1, pos + frame.len), pos |-> pos]

\* read_frame from the payload on (reader.rs 131-148); pos is past the frame header
ReadPayloadAt(f, pos, frame, mode) ==
    IF Len(f) - pos < frame.len
    THEN [tag |-> Truncation(mode), kind |-> frame.kind, payload |-> <<>>, pos |-> pos]
    ELSE [tag |-> "Frame", kind |-> frame.kind,
          payload |-> SubSeq(f, pos + 1, pos + frame.len), pos |-> pos + frame.len]

\* JournalReader::read_frame
ReadFrame(f, pos, mode) ==
    LET h == ReadHeaderAt(f, pos, mode)
    IN  IF h.tag # "Header"
        THEN [tag |-> h.tag, kind |-> 0, payload |-> <<>>, pos |-> h.pos]
        ELSE ReadPayloadAt(f, h.pos, h, mode)

\* what read_event makes of one frame of kind EventJson
EventOfPayload(payload) == FromSlice(payload)

\* JournalReader::read_event
RECURSIVE ReadEvent(_, _, _)
ReadEvent(f, pos, mode) ==
    LET r == ReadFrame(f, pos, mode)
    IN  IF r.tag # "Frame"
        THEN [tag |-> r.tag, ev |-> NoEvent, pos |-> r.pos]
        ELSE IF r.kind = FRAME_KIND_EVENT_JSON
        THEN [tag |-> EventOfPayload(r.payload).tag, ev |-> EventOfPayload(r.payload).ev,
              pos |-> r.pos]
        ELSE ReadEvent(f, r.pos, mode)

Result(tag, ev) == [tag |-> tag, ev |-> ev]

(***************************************************************************)
(* Writer: open, append_event, append_raw, finish.                         *)
(***************************************************************************)
\* write(2) of bytes at cursor pos of a file opened without O_APPEND
WriteAt(f, pos, bytes) ==
    (IF pos <= Len(f) THEN Take(f, pos) ELSE f \o Zeros(pos - Len(f)))
    \o bytes \o Drop(f, pos + Len(bytes))

\* history record of one append: ev is the value handed to append_event
Rec(kind, payload, via, ev) == [kind |-> kind, payload |-> payload, via |-> via, ev |-> ev]

\* mutant: the writer seeks to the end of the header instead of the end of the file
SeekEnd_Start(f) == HEADER_SIZE

\* file.seek(SeekFrom::End(0))
SeekEnd(f) == Len(f)

\* JournalWriter::open with options {create: true, append}
WOpen(append) ==
    /\ wpc \in {"none", "finished"}
    /\ rpc = "none"
    /\ sessions < MaxSessions
    /\ sessions' = sessions + 1
    /\ base' = file
    /\ wappend' = append
    /\ wbuf' = <<>>
    /\ wpayload' = <<>>
    /\ IF Len(file) = 0
       THEN /\ file' = WriteAt(file, 0, HeaderToBytes)
            /\ header_written' = TRUE
            /\ wpos' = HEADER_SIZE
            /\ wpc' = "idle"
            /\ wres' = "ok"
            /\ UNCHANGED <<journal, cut>>
       ELSE IF Len(file) < HEADER_SIZE
       THEN /\ wres' = "FileNotEmpty"
            /\ wpc' = "failed"
            /\ header_written' = FALSE
            /\ UNCHANGED <<file, wpos, journal, cut>>
       ELSE IF ~HeaderFromBytes(Take(file, HEADER_SIZE))
       THEN /\ wres' = "InvalidHeader"
            /\ wpc' = "failed"
            /\ header_written' = FALSE
            /\ UNCHANGED <<file, wpos, journal, cut>>
       ELSE /\ header_written' = TRUE
            /\ wpc' = "idle"
            /\ wres' = "ok"
            /\ IF append
               THEN /\ wpos' = SeekEnd(file)
                    /\ UNCHANGED <<file, journal, cut>>
               ELSE /\ file' = Take(file, HEADER_SIZE)
                    /\ wpos' = HEADER_SIZE
                    /\ journal' = <<>>
                    /\ cut' = 0
    /\ nbase' = Len(journal')
    /\ UNCHANGED <<rpc, rmode, position, rframe, rout>>
    /\ UNCHANGED vvars

\* JournalWriter::append_raw, the whole call
AppendRawCall(kind, payload, via, ev) ==
    /\ wpc = "idle"
    /\ rpc = "none"
    /\ Len(journal) < MaxRecords
    /\ IF ~header_written
       THEN /\ wres' = "InvalidHeader"
            /\ UNCHANGED <<file, wpos, journal>>
       ELSE IF ~RecordFrameNew(kind, AsU32(Len(payload))).ok
       THEN /\ wres' = "PayloadTooLarge"
            /\ UNCHANGED <<file, wpos, journal>>
       ELSE /\ file' = WriteAt(file, wpos, FrameBytes(kind, payload))
            /\ wpos' = wpos + Len(FrameBytes(kind, payload))
            /\ journal' = Append(journal, Rec(kind, payload, via, ev))
            /\ wres' = "ok"
    /\ UNCHANGED <<wpc, wbuf, wpayload, header_written, base, cut, sessions, nbase, wappend>>
    /\ UNCHANGED <<rpc, rmode, position, rframe, rout>>
    /\ UNCHANGED vvars

\* JournalWriter::append_event
AppendEvent(e) == AppendRawCall(FRAME_KIND_EVENT_JSON, ToVec(e), "event", e)

\* the kinds and payloads handed to append_raw: "", and a payload that is itself
\* the bytes of a frame
UnknownKind == 255
RawKinds == {FRAME_KIND_EVENT_JSON, UnknownKind}
RawPayloads == {<<>>, FrameBytes(FRAME_KIND_EVENT_JSON, ToVec(JNum(1)))}

AppendRaw(kind, payload) == AppendRawCall(kind, payload, "raw", NoEvent)

\* JournalWriter::finish
Finish ==
    /\ wpc = "idle"
    /\ rpc = "none"
    /\ wpc' = "finished"
    /\ wres' = "ok"
    /\ UNCHANGED <<file, wpos, wbuf, wpayload, header_written, journal, base, cut, sessions, nbase, wappend>>
    /\ UNCHANGED <<rpc, rmode, position, rframe, rout>>
    /\ UNCHANGED vvars

\* size of the last record's frame
LastFrameSize == FRAME_HEADER_SIZE + Len(journal[Len(journal)].payload)

\* file.set_len(len - k): the last k bytes are deleted
Truncate(k) ==
    /\ wpc = "finished"
    /\ rpc = "none"
    /\ cut = 0
    /\ journal # <<>>
    /\ k \in 1..(LastFrameSize + 1)
    /\ file' = Take(file, Len(file) - k)
    /\ cut' = k
    /\ UNCHANGED <<wpc, wpos, wbuf, wpayload, header_written, wres, journal, base, sessions, nbase, wappend>>
    /\ UNCHANGED <<rpc, rmode, position, rframe, rout>>
    /\ UNCHANGED vvars

(***************************************************************************)
(* Reader: open and read_event.                                            *)
(***************************************************************************)
\* JournalReader::open
ROpenBody(mode) ==
    /\ rpc = "none"
    /\ rmode' = mode
    /\ IF Len(file) >= HEADER_SIZE /\ HeaderFromBytes(Take(file, HEADER_SIZE))
       THEN /\ rpc' = "idle"
            /\ position' = HEADER_SIZE
       ELSE /\ rpc' = "failed"
            /\ UNCHANGED position
    /\ UNCHANGED <<file, wpc, wpos, wbuf, wpayload, header_written, wres, journal, base,
                   cut, sessions, nbase, wappend, rframe, rout>>
    /\ UNCHANGED vvars

\* a reader opened once no writer holds the file
ROpen(mode) ==
    /\ wpc \in {"finished", "failed"}
    /\ ROpenBody(mode)

\* JournalReader::read_event, the whole call
ReadEventCall ==
    /\ rpc = "idle"
    /\ Len(rout) < MaxReads
    /\ LET r == ReadEvent(file, position, rmode)
       IN  /\ rout' = Append(rout, Result(r.tag, r.ev))
           /\ position' = r.pos
    /\ UNCHANGED <<file, wpc, wpos, wbuf, wpayload, header_written, wres, journal, base,
                   cut, sessions, nbase, wappend, rpc, rmode, rframe>>
    /\ UNCHANGED vvars

NoFrame == [kind |-> 0, len |-> 0]

JInit ==
    /\ file = <<>>
    /\ wpc = "none"
    /\ wpos = 0
    /\ wbuf = <<>>
    /\ wpayload = <<>>
    /\ header_written = FALSE
    /\ wres = "ok"
    /\ journal = <<>>
    /\ base = <<>>
    /\ cut = 0
    /\ sessions = 0
    /\ nbase = 0
    /\ wappend = TRUE
    /\ rpc = "none"
    /\ rmode = "Strict"
    /\ position = 0
    /\ rframe = NoFrame
    /\ rout = <<>>

VIdle ==
    /\ exec = NoEvent
    /\ auth = NoEvent
    /\ conv = NoEvent
    /\ event = NoEvent
    /\ verdict = [verdict |-> "none"]

Init == JInit /\ VIdle

Next ==
    \/ \E append \in BOOLEAN : cut = 0 /\ WOpen(append)
    \/ \E e \in JsonValues : AppendEvent(e)
    \/ \E kind \in RawKinds, payload \in RawPayloads : AppendRaw(kind, payload)
    \/ Finish
    \/ \E k \in 1..32 : Truncate(k)
    \/ \E mode \in {"Strict", "Permissive"} : ROpen(mode)
    \/ ReadEventCall

Spec == Init /\ [][Next]_vars

(***************************************************************************)
(* A reader working on the file while the single writer appends.  The      *)
(* writer's append_raw is split at its two write_all calls, each of which  *)
(* may reach the file in several writes; the reader's read_frame is split  *)
(* between its two read_exact calls.                                       *)
(***************************************************************************)
\* append_raw up to the first write_all (writer.rs 190-197)
AppendRawBegin(kind, payload, via, ev) ==
    /\ wpc = "idle"
    /\ Len(journal) < MaxRecords
    /\ header_written
    /\ RecordFrameNew(kind, AsU32(Len(payload))).ok
    /\ wbuf' = FrameToBytes(RecordFrameNew(kind, AsU32(Len(payload))))
    /\ wpayload' = payload
    /\ wpc' = "frame"
    /\ journal' = Append(journal, Rec(kind, payload, via, ev))
    /\ UNCHANGED <<file, wpos, header_written, wres, base, cut, sessions, nbase, wappend>>
    /\ UNCHANGED <<rpc, rmode, position, rframe, rout>>
    /\ UNCHANGED vvars

AppendEventBegin(e) == AppendRawBegin(FRAME_KIND_EVENT_JSON, ToVec(e), "event", e)

\* one write of the write_all in progress (writer.rs 200-203): n more bytes reach the file
WriteChunk(n) ==
    /\ wpc \in {"frame", "payload"}
    /\ n \in 1..Len(wbuf)
    /\ file' = WriteAt(file, wpos, Take(wbuf, n))
    /\ wpos' = wpos + n
    /\ IF n < Len(wbuf)
       THEN /\ wbuf' = Drop(wbuf, n)
            /\ UNCHANGED <<wpc, wpayload>>
       ELSE IF wpc = "frame" /\ wpayload # <<>>
       THEN /\ wbuf' = wpayload
            /\ wpayload' = <<>>
            /\ wpc' = "payload"
       ELSE /\ wbuf' = <<>>
            /\ wpayload' = <<>>
            /\ wpc' = "idle"
    /\ UNCHANGED <<header_written, wres, journal, base, cut, sessions, nbase, wappend>>
    /\ UNCHANGED <<rpc, rmode, position, rframe, rout>>
    /\ UNCHANGED vvars

\* a reader opened while the writer holds the file
ROpenLive(mode) ==
    /\ wpc # "none"
    /\ ROpenBody(mode)

\* read_event: the frame header of the next frame (reader.rs 98-129)
RHeader ==
    /\ rpc \in {"idle", "header"}
    /\ Len(rout) < MaxReads
    /\ LET h == ReadHeaderAt(file, position, rmode)
       IN  IF h.tag = "Header"
           THEN /\ position' = h.pos
                /\ rframe' = [kind |-> h.kind, len |-> h.len]
                /\ rpc' = "payload"
                /\ UNCHANGED rout
           ELSE /\ rout' = Append(rout, Result(h.tag, NoEvent))
                /\ rpc' = "idle"
                /\ UNCHANGED <<position, rframe>>
    /\ UNCHANGED <<file, wpc, wpos, wbuf, wpayload, header_written, wres, journal, base,
                   cut, sessions, nbase, wappend, rmode>>
    /\ UNCHANGED vvars

\* read_event: the payload of the frame, and what the loop does with it
\* (reader.rs 131-148 and 176-190)
RPayload ==
    /\ rpc = "payload"
    /\ LET p == ReadPayloadAt(file, position, rframe, rmode)
       IN  IF p.tag # "Frame"
           THEN /\ rout' = Append(rout, Result(p.tag, NoEvent))
                /\ rpc' = "idle"
                /\ UNCHANGED position
           ELSE /\ position' = p.pos
                /\ IF p.kind = FRAME_KIND_EVENT_JSON
                   THEN /\ rout' = Append(rout, Result(EventOfPayload(p.payload).tag,
                                                       EventOfPayload(p.payload).ev))
                        /\ rpc' = "idle"
                   ELSE /\ rpc' = "header"
                        /\ UNCHANGED rout
    /\ rframe' = NoFrame
    /\ UNCHANGED <<file, wpc, wpos, wbuf, wpayload, header_written, wres, journal, base,
                   cut, sessions, nbase, wappend, rmode>>
    /\ UNCHANGED vvars

LiveNext ==
    \/ WOpen(TRUE)
    \/ \E e \in JsonValues : AppendEventBegin(e)
    \/ \E kind \in RawKinds, payload \in RawPayloads : AppendRawBegin(kind, payload, "raw", NoEvent)
    \/ \E n \in 1..32 : WriteChunk(n)
    \/ \E mode \in {"Strict", "Permissive"} : ROpenLive(mode)
    \/ RHeader
    \/ RPayload

LiveSpec == Init /\ [][LiveNext]_vars

(***************************************************************************)
(* verification.rs: quantities.  An integer string is a sequence of        *)
(* character codes: 45 is '-', 48..57 are the digits.                      *)
(***************************************************************************)
None == [some |-> FALSE]
Some(x) == [some |-> TRUE, v |-> x]

QInt(v) == [t |-> "int", v |-> v]
QDec(m, sc) == [t |-> "dec", m |-> m, s |-> sc]
QRat(n, d) == [t |-> "rat", n |-> n, d |-> d]
QF64(bits) == [t |-> "f64", bits |-> bits]

IsDigit(c) == c \in 48..57

\* a.strip_prefix('-')
StripMinus(a) ==
    IF a # <<>> /\ a[1] = 45
    THEN [sign |-> -1, abs |-> Tail(a)]
    ELSE [sign |-> 1, abs |-> a]

Reverse(o) == CASE o = "Less" -> "Greater" [] o = "Greater" -> "Less" [] OTHER -> "Equal"

\* mutant: the length of the digit strings is not compared before their bytes
cmp_int_strings_NoLength(a, b) ==
    IF a = <<48>> /\ b = <<48>> THEN Some("Equal")
    ELSE IF StripMinus(a).sign < StripMinus(b).sign THEN Some("Less")
    ELSE IF StripMinus(a).sign > StripMinus(b).sign THEN Some("Greater")
    ELSE IF StripMinus(a).sign < 0
         THEN Some(Reverse(StrCmp(StripMinus(a).abs, StripMinus(b).abs)))
         ELSE Some(StrCmp(StripMinus(a).abs, StripMinus(b).abs))

\* Verifier::cmp_int_strings
cmp_int_strings(a, b) ==
    IF a = <<48>> /\ b = <<48>> THEN Some("Equal")
    ELSE LET sa == StripMinus(a)
             sb == StripMinus(b)
             abs_cmp == IF Len(sa.abs) < Len(sb.abs) THEN "Less"
                        ELSE IF Len(sa.abs) > Len(sb.abs) THEN "Greater"
                        ELSE StrCmp(sa.abs, sb.abs)
         IN  IF sa.sign < sb.sign THEN Some("Less")
             ELSE IF sa.sign > sb.sign THEN Some("Greater")
             ELSE IF sa.sign < 0 THEN Some(Reverse(abs_cmp))
             ELSE Some(abs_cmp)

\* Verifier::normalize_dec_scale
normalize_dec_scale(mantissa, from_scale, to_scale) ==
    IF to_scale < from_scale THEN None
    ELSE IF to_scale = from_scale THEN Some(mantissa)
    ELSE Some(mantissa \o [i \in 1..(to_scale - from_scale) |-> 48])

\* Verifier::cmp_dec
cmp_dec(used_m, used_s, cap_m, cap_s) ==
    LET max_scale == IF used_s > cap_s THEN used_s ELSE cap_s
        used_normalized == normalize_dec_scale(used_m, used_s, max_scale)
        cap_normalized == normalize_dec_scale(cap_m, cap_s, max_scale)
    IN  IF ~used_normalized.some \/ ~cap_normalized.some THEN None
        ELSE cmp_int_strings(used_normalized.v, cap_normalized.v)

\* the value of a string of digits
RECURSIVE DigitsValue(_)
DigitsValue(ds) ==
    IF ds = <<>> THEN 0 ELSE 10 * DigitsValue(Take(ds, Len(ds) - 1)) + (ds[Len(ds)] - 48)

\* str::parse::<i128> and BigInt::parse_bytes(_, 10): an optional sign, then digits.
\* Every integer string of the model lies within i128.
ParseInt(a) ==
    LET body == IF a # <<>> /\ a[1] \in {43, 45} THEN Tail(a) ELSE a
    IN  IF body = <<>> \/ \E i \in 1..Len(body) : ~IsDigit(body[i])
        THEN None
        ELSE Some(IF a[1] = 45 THEN 0 - DigitsValue(body) ELSE DigitsValue(body))

\* BigInt::to_string
IntToString(n) == IF n < 0 THEN <<45>> \o Digits(0 - n) ELSE Digits(n)

(* i128 arithmetic on integers of any length.  BigInt and i128 are wider   *)
(* than the integers of the checker, so a magnitude is a sequence of limbs *)
(* of four decimal digits, least significant first, without a leading zero *)
(* limb; zero is <<0>>.                                                    *)
RECURSIVE StripZeros(_)
StripZeros(ds) == IF Len(ds) > 1 /\ ds[1] = 48 THEN StripZeros(Tail(ds)) ELSE ds

LIMB_BASE == 10000

DigitAt(ds, p) == IF p >= 1 THEN ds[p] - 48 ELSE 0

\* the magnitude of a string of digits
ToLimbs(digits) ==
    LET ds == StripZeros(digits)
        n == Len(ds)
    IN  [j \in 1..((n + 3) \div 4) |->
            DigitAt(ds, n - 4 * (j - 1)) + 10 * DigitAt(ds, n - 4 * (j - 1) - 1)
            + 100 * DigitAt(ds, n - 4 * (j - 1) - 2)
            + 1000 * DigitAt(ds, n - 4 * (j - 1) - 3)]

NatCmp(a, b) ==
    IF Len(a) < Len(b) THEN "Less"
    ELSE IF Len(a) > Len(b) THEN "Greater"
    ELSE IF a = b THEN "Equal"
    ELSE LET top == CHOOSE i \in 1..Len(a) :
                        a[i] # b[i] /\ \A j \in (i + 1)..Len(a) : a[j] = b[j]
         IN  IF a[top] < b[top] THEN "Less" ELSE "Greater"

\* the sum of a[i] * b[k + 1 - i] over the limbs i..Len(a) of a
RECURSIVE Column(_, _, _, _)
Column(a, b, k, i) ==
    IF i > Len(a) THEN 0
    ELSE (IF k + 1 - i \in 1..Len(b) THEN a[i] * b[k + 1 - i] ELSE 0) + Column(a, b, k, i + 1)

\* the limbs k.. of a product from its columns, given the carry into limb k
RECURSIVE Carried(_, _, _)
Carried(columns, k, carry) ==
    IF k > Len(columns) THEN <<>>
    ELSE <<(columns[k] + carry) % LIMB_BASE>>
             \o Carried(columns, k + 1, (columns[k] + carry) \div LIMB_BASE)

RECURSIVE TrimLimbs(_)
TrimLimbs(a) ==
    IF Len(a) > 1 /\ a[Len(a)] = 0 THEN TrimLimbs(Take(a, Len(a) - 1)) ELSE a

NatMul(a, b) ==
    TrimLimbs(Carried([k \in 1..(Len(a) + Len(b)) |-> Column(a, b, k, 1)], 1, 0))

\* i128::MAX, 2^127 - 1; i128::MIN is -(2^127)
I128_MAX == ToLimbs(<<49, 55, 48, 49, 52, 49, 49, 56, 51, 52, 54, 48, 52, 54, 57, 50, 51, 49, 55, 51, 49, 54, 56, 55, 51, 48, 51, 55, 49, 53, 56, 56, 52, 49, 48, 53, 55, 50, 55>>)
I128_MIN_ABS == ToLimbs(<<49, 55, 48, 49, 52, 49, 49, 56, 51, 52, 54, 48, 52, 54, 57, 50, 51, 49, 55, 51, 49, 54, 56, 55, 51, 48, 51, 55, 49, 53, 56, 56, 52, 49, 48, 53, 55, 50, 56>>)

\* an i128 of the given sign and magnitude, None when out of range
I128(neg, mag) ==
    IF NatCmp(mag, I128_MAX) # "Greater" \/ (neg /\ mag = I128_MIN_ABS)
    THEN Some([neg |-> neg /\ mag # <<0>>, mag |-> mag])
    ELSE None

\* str::parse::<i128>: an optional sign, then digits; Err when out of range
ParseI128(a) ==
    LET body == IF a # <<>> /\ a[1] \in {43, 45} THEN Tail(a) ELSE a
    IN  IF body = <<>> \/ \E i \in 1..Len(body) : ~IsDigit(body[i])
        THEN None
        ELSE I128(a[1] = 45, ToLimbs(body))

\* i128::checked_mul
checked_mul(x, y) == I128(x.neg # y.neg, NatMul(x.mag, y.mag))

\* i128::cmp
I128Cmp(x, y) ==
    IF x.neg /\ ~y.neg THEN "Less"
    ELSE IF ~x.neg /\ y.neg THEN "Greater"
    ELSE IF x.neg THEN Reverse(NatCmp(x.mag, y.mag))
    ELSE NatCmp(x.mag, y.mag)

\* Verifier::cmp_rat
cmp_rat(used_n, used_d, cap_n, cap_d) ==
    IF ParseI128(used_n).some /\ ParseI128(used_d).some /\ ParseI128(cap_n).some
       /\ ParseI128(cap_d).some
    THEN LET left == checked_mul(ParseI128(used_n).v, ParseI128(cap_d).v)
             right == checked_mul(ParseI128(cap_n).v, ParseI128(used_d).v)
         IN  IF ~left.some \/ ~right.some THEN None
             ELSE Some(I128Cmp(left.v, right.v))
    ELSE None

\* Option<Ordering> -> ComparisonResult
OrderingResult(o) ==
    IF ~o.some THEN "Invalid"
    ELSE IF o.v = "Greater" THEN "ExceedsBounds"
    ELSE "WithinBounds"

\* Verifier::compare_quantities
compare_quantities(used, cap) ==
    IF used.t = "int" /\ cap.t = "int" THEN OrderingResult(cmp_int_strings(used.v, cap.v))
    ELSE IF used.t = "dec" /\ cap.t = "dec"
    THEN OrderingResult(cmp_dec(used.m, used.s, cap.m, cap.s))
    ELSE IF used.t = "rat" /\ cap.t = "rat"
    THEN OrderingResult(cmp_rat(used.n, used.d, cap.n, cap.d))
    ELSE IF used.t = "f64" /\ cap.t = "f64"
    THEN (IF used.bits = cap.bits THEN "WithinBounds" ELSE "Invalid")
    ELSE "Invalid"

\* u32::saturating_add; every scale of the model is far below u32::MAX
SaturatingAdd(x, y) == x + y

\* Verifier::mul_quantities
mul_quantities(a, b) ==
    IF a.t = "int" /\ b.t = "int"
    THEN IF ParseInt(a.v).some /\ ParseInt(b.v).some
         THEN Some(QInt(IntToString(ParseInt(a.v).v * ParseInt(b.v).v)))
         ELSE None
    ELSE IF a.t = "int" /\ b.t = "dec"
    THEN IF ParseInt(a.v).some /\ ParseInt(b.m).some
         THEN Some(QDec(IntToString(ParseInt(a.v).v * ParseInt(b.m).v), b.s))
         ELSE None
    ELSE IF a.t = "dec" /\ b.t = "int"
    THEN IF ParseInt(b.v).some /\ ParseInt(a.m).some
         THEN Some(QDec(IntToString(ParseInt(b.v).v * ParseInt(a.m).v), a.s))
         ELSE None
    ELSE IF a.t = "dec" /\ b.t = "dec"
    THEN IF ParseInt(a.m).some /\ ParseInt(b.m).some
         THEN Some(QDec(IntToString(ParseInt(a.m).v * ParseInt(b.m).v),
                        SaturatingAdd(a.s, b.s)))
         ELSE None
    ELSE None

(***************************************************************************)
(* verification.rs: events, digests and the verifier.  SHA-256 over the    *)
(* canonical bytes is modelled as collision-free: a digest carries its     *)
(* domain separator and the content it was computed from.                  *)
(***************************************************************************)
Sha256(domain, content) == [alg |-> "sha-256", b64 |-> [domain |-> domain, of |-> content]]

\* compute_event_id: the event without its top-level event_id, hashed under the
\* event domain separator
compute_event_id(e) ==
    Sha256("northroot:event:v1", [f \in (DOMAIN e) \ {"event_id"} |-> e[f]])

\* ConversionContext::compute_snapshot_digest
compute_snapshot_digest(ctx) == Sha256("northroot:price-index:v1", ctx.snapshot)

\* meter.unit.starts_with("tokens.")
StartsWithTokens(unit) == unit \in {"tokens.input", "tokens.output", "tokens.cached"}

\* iter().find(pred): the first element of seq that is in the set matching
Find(seq, matching) ==
    IF \E i \in 1..Len(seq) : seq[i] \in matching
    THEN Some(seq[CHOOSE i \in 1..Len(seq) :
                    /\ seq[i] \in matching
                    /\ \A j \in 1..(i - 1) : seq[j] \notin matching])
    ELSE None

\* Verifier::convert_to_usd
convert_to_usd(meter, ex, ctx) ==
    IF StartsWithTokens(meter.unit)
    THEN IF meter.unit \notin {"tokens.input", "tokens.output"} THEN None
         ELSE IF ~ex.model_id.some \/ ~ex.provider.some THEN None
         ELSE LET token_type == IF meter.unit = "tokens.input" THEN "input" ELSE "output"
                  price_entry ==
                      Find(ctx.snapshot.token_prices,
                           {q \in Range(ctx.snapshot.token_prices) :
                               /\ q.model_id = ex.model_id.v
                               /\ q.provider = ex.provider.v
                               /\ q.token_type = token_type})
              IN  IF ~price_entry.some THEN None
                  ELSE mul_quantities(meter.amount, price_entry.v.price_per_token)
    ELSE IF meter.unit = "compute.seconds" \/ meter.unit = "storage.bytes"
    THEN LET rates == IF meter.unit = "compute.seconds"
                      THEN ctx.snapshot.compute_rates
                      ELSE ctx.snapshot.storage_rates
         IN  IF ~rates.some THEN None
             ELSE LET rate_entry == Find(rates.v, {q \in Range(rates.v) : q.unit = meter.unit})
                  IN  IF ~rate_entry.some THEN None
                      ELSE mul_quantities(meter.amount, rate_entry.v.price_per_unit)
    ELSE None

\* cap_map: unit -> amount; a later cap of the same unit replaces an earlier one
CapUnits(caps) == {caps[i].unit : i \in 1..Len(caps)}
CapAmount(caps, unit) ==
    caps[CHOOSE i \in 1..Len(caps) :
            /\ caps[i].unit = unit
            /\ \A j \in (i + 1)..Len(caps) : caps[j].unit # unit].amount

\* what the loop of check_meter_bounds finds for one used meter:
\* "ok", "violation", "missing", or "skip"
ComparisonOutcome(r) ==
    CASE r = "WithinBounds" -> "ok"
      [] r = "ExceedsBounds" -> "violation"
      [] r = "Invalid" -> "missing"

\* mutant: a used meter with neither a cap of its unit nor a usd cap counts as
\* missing evidence
MeterOutcome_UncappedMissing(meter, caps, ex, conversion) ==
    IF meter.unit \in CapUnits(caps)
    THEN ComparisonOutcome(compare_quantities(meter.amount, CapAmount(caps, meter.unit)))
    ELSE IF "usd" \in CapUnits(caps) /\ conversion.some
            /\ convert_to_usd(meter, ex, conversion.v).some
    THEN ComparisonOutcome(compare_quantities(convert_to_usd(meter, ex, conversion.v).v,
                                              CapAmount(caps, "usd")))
    ELSE "missing"

MeterOutcome(meter, caps, ex, conversion) ==
    IF meter.unit \in CapUnits(caps)
    THEN ComparisonOutcome(compare_quantities(meter.amount, CapAmount(caps, meter.unit)))
    ELSE IF "usd" \in CapUnits(caps)
    THEN IF conversion.some
         THEN IF convert_to_usd(meter, ex, conversion.v).some
              THEN ComparisonOutcome(
                       compare_quantities(convert_to_usd(meter, ex, conversion.v).v,
                                          CapAmount(caps, "usd")))
              ELSE "missing"
         ELSE "missing"
    ELSE "skip"

\* mutant: missing evidence takes precedence over a violation
check_meter_bounds_InvalidFirst(used, caps, ex, conversion) ==
    IF \E i \in 1..Len(used) : MeterOutcome(used[i], caps, ex, conversion) = "missing"
    THEN "Invalid"
    ELSE IF \E i \in 1..Len(used) : MeterOutcome(used[i], caps, ex, conversion) = "violation"
    THEN "Violation"
    ELSE "Ok"

\* mutant: a used meter that cannot be converted to USD is skipped
check_meter_bounds_SkipUnconverted(used, caps, ex, conversion) ==
    IF \E i \in 1..Len(used) : MeterOutcome(used[i], caps, ex, conversion) = "violation"
    THEN "Violation"
    ELSE IF \E i \in 1..Len(used) :
                /\ MeterOutcome(used[i], caps, ex, conversion) = "missing"
                /\ used[i].unit \in CapUnits(caps)
    THEN "Invalid"
    ELSE "Ok"

\* Verifier::check_meter_bounds
check_meter_bounds(used, caps, ex, conversion) ==
    LET has_violation ==
            \E i \in 1..Len(used) : MeterOutcome(used[i], caps, ex, conversion) = "violation"
        has_missing_evidence ==
            \E i \in 1..Len(used) : MeterOutcome(used[i], caps, ex, conversion) = "missing"
    IN  IF has_violation THEN "Violation"
        ELSE IF has_missing_evidence THEN "Invalid"
        ELSE "Ok"

\* mutant: the authorization's decision is not looked at
DecisionIsDeny_Ignored(au) == FALSE

\* auth.decision == Decision::Deny
DecisionIsDeny(au) == au.decision = "deny"

\* Verifier::verify_execution
verify_execution(ex, au, conversion) ==
    IF ex.event_id # compute_event_id(ex) THEN "Invalid"
    ELSE IF ex.event_type # "execution" THEN "Invalid"
    ELSE IF ex.event_version # "1" THEN "Invalid"
    ELSE IF ex.auth_event_id # au.event_id THEN "Invalid"
    ELSE IF ex.intents.intent_digest # au.intents.intent_digest THEN "Invalid"
    ELSE IF DecisionIsDeny(au) THEN "Invalid"
    ELSE IF /\ ex.pricing_snapshot_digest.some
            /\ conversion.some
            /\ ex.pricing_snapshot_digest.v # compute_snapshot_digest(conversion.v)
    THEN "Invalid"
    ELSE IF au.authorization.kind = "action"
            /\ ex.tool_name # au.authorization.action.tool_name
    THEN "Invalid"
    ELSE LET bounds_verdict ==
                 IF au.authorization.kind = "grant"
                 THEN check_meter_bounds(ex.meter_used, au.authorization.bounds.meter_caps,
                                         ex, conversion)
                 ELSE IF au.authorization.action.meter_reservation.some
                 THEN check_meter_bounds(ex.meter_used,
                                         au.authorization.action.meter_reservation.v,
                                         ex, conversion)
                 ELSE "Ok"
         IN  IF ex.outcome = "failure" /\ ~ex.error_code.some THEN "Invalid"
             ELSE bounds_verdict

\* mutant: the window's heights are compared the other way round
verify_checkpoint_EndFirst(cp) ==
    IF cp.event_id # compute_event_id(cp) THEN "Invalid"
    ELSE IF cp.event_type # "checkpoint" THEN "Invalid"
    ELSE IF cp.event_version # "1" THEN "Invalid"
    ELSE IF cp.merkle_root.some /\ ~cp.window.some THEN "Invalid"
    ELSE IF /\ cp.window.some
            /\ cp.window.v.start_height.some
            /\ cp.window.v.end_height.some
            /\ cp.window.v.start_height.v < cp.window.v.end_height.v
    THEN "Invalid"
    ELSE "Ok"

\* Verifier::verify_checkpoint
verify_checkpoint(cp) ==
    IF cp.event_id # compute_event_id(cp) THEN "Invalid"
    ELSE IF cp.event_type # "checkpoint" THEN "Invalid"
    ELSE IF cp.event_version # "1" THEN "Invalid"
    ELSE IF cp.merkle_root.some /\ ~cp.window.some THEN "Invalid"
    ELSE IF /\ cp.window.some
            /\ cp.window.v.start_height.some
            /\ cp.window.v.end_height.some
            /\ cp.window.v.start_height.v > cp.window.v.end_height.v
    THEN "Invalid"
    ELSE "Ok"

\* mutant: the bounds of a grant are checked before its decision
verify_authorization_BoundsFirst(au) ==
    IF au.event_id # compute_event_id(au) THEN "Invalid"
    ELSE IF au.event_type # "authorization" THEN "Invalid"
    ELSE IF au.event_version # "1" THEN "Invalid"
    ELSE IF au.authorization.kind = "grant"
            /\ (au.authorization.bounds.allowed_tools = <<>>
                \/ au.authorization.bounds.meter_caps = <<>>)
    THEN "Invalid"
    ELSE IF au.decision = "deny" THEN "Denied"
    ELSE "Ok"

\* Verifier::verify_authorization
verify_authorization(au) ==
    IF au.event_id # compute_event_id(au) THEN "Invalid"
    ELSE IF au.event_type # "authorization" THEN "Invalid"
    ELSE IF au.event_version # "1" THEN "Invalid"
    ELSE IF au.decision = "deny" THEN "Denied"
    ELSE IF au.authorization.kind = "grant"
    THEN IF au.authorization.bounds.allowed_tools = <<>> THEN "Invalid"
         ELSE IF au.authorization.bounds.meter_caps = <<>> THEN "Invalid"
         ELSE "Ok"
    ELSE IF au.authorization.action.tool_params_digest.alg # "sha-256" THEN "Invalid"
    ELSE "Ok"

(***************************************************************************)
(* Events and conversion contexts handed to the verifier.  Fields the      *)
(* verifier never reads are the same in every event and are left out.      *)
(***************************************************************************)
NoVerdict == [verdict |-> "none"]

\* shared.rs Meter
Meter(unit, amount) == [unit |-> unit, amount |-> amount]

\* an event body with its event_id field
WithEventId(body, id) ==
    [f \in (DOMAIN body) \cup {"event_id"} |-> IF f = "event_id" THEN id ELSE body[f]]

\* a digest that is the id of no event of the model
ForeignId == Sha256("northroot:event:v1", [foreign |-> TRUE])

IntentDigests == {Sha256("northroot:intent:v1", "i1"), Sha256("northroot:intent:v1", "i2")}
Intent1 == Sha256("northroot:intent:v1", "i1")

\* events.rs AuthorizationKind::Grant
Grant(allowed_tools, meter_caps) ==
    [kind |-> "grant", bounds |-> [allowed_tools |-> allowed_tools, meter_caps |-> meter_caps]]

\* events.rs AuthorizationKind::Action
Action(tool_name, meter_reservation) ==
    [kind |-> "action",
     action |-> [tool_name |-> tool_name,
                 tool_params_digest |-> Sha256("northroot:params:v1", "params"),
                 meter_reservation |-> meter_reservation]]

\* events.rs AuthorizationEvent
AuthorizationEvent(id_ok, event_type, event_version, decision, authorization) ==
    LET body == [event_type |-> event_type, event_version |-> event_version,
                 intents |-> [intent_digest |-> Intent1],
                 decision |-> decision, authorization |-> authorization]
    IN  WithEventId(body, IF id_ok THEN compute_event_id(body) ELSE ForeignId)

\* events.rs ExecutionEvent
ExecutionEvent(id_ok, event_type, event_version, auth_event_id, intent_digest, tool_name, meter_used, result, model, pricing_snapshot_digest) ==
    LET body == [event_type |-> event_type, event_version |-> event_version,
                 intents |-> [intent_digest |-> intent_digest],
                 auth_event_id |-> auth_event_id, tool_name |-> tool_name,
                 meter_used |-> meter_used,
                 outcome |-> result.outcome, error_code |-> result.error_code,
                 model_id |-> model.model_id, provider |-> model.provider,
                 pricing_snapshot_digest |-> pricing_snapshot_digest]
    IN  WithEventId(body, IF id_ok THEN compute_event_id(body) ELSE ForeignId)

\* verification.rs TokenPrice, UnitRate, PriceIndexSnapshot, ConversionContext
TokenPrice(model_id, provider, token_type, price_per_token) ==
    [model_id |-> model_id, provider |-> provider, token_type |-> token_type,
     price_per_token |-> price_per_token]
UnitRate(unit, price_per_unit) == [unit |-> unit, price_per_unit |-> price_per_unit]
ConversionContext(token_prices, compute_rates, storage_rates) ==
    [snapshot |-> [token_prices |-> token_prices, compute_rates |-> compute_rates,
                   storage_rates |-> storage_rates]]

\* integer strings of the grammar: "0", or an optional '-' and digits without a
\* leading zero, of at most MaxDigits digits
DigitChars == {48, 49, 50, 57}
DigitStrings == UNION {[1..n -> DigitChars] : n \in 1..MaxDigits}
IntStrings ==
    {<<48>>}
    \cup {ds \in DigitStrings : ds[1] # 48}
    \cup {<<45>> \o ds : ds \in {x \in DigitStrings : x[1] # 48}}

Str(n) == IntToString(n)

\* outcome and error_code of an execution
Results == {[outcome |-> "success", error_code |-> None],
            [outcome |-> "failure", error_code |-> Some("E1")],
            [outcome |-> "failure", error_code |-> None]}

\* model_id and provider of an execution
Models == {[model_id |-> Some("m1"), provider |-> Some("p1")],
           [model_id |-> None, provider |-> Some("p1")],
           [model_id |-> Some("m1"), provider |-> None]}

\* conversion contexts: none; input tokens of m1/p1 at 1; input tokens at 3 and
\* compute seconds at 1; input tokens at a decimal price
Conversions ==
    {None,
     Some(ConversionContext(<<TokenPrice("m1", "p1", "input", QInt(Str(1)))>>, None, None)),
     Some(ConversionContext(<<TokenPrice("m1", "p1", "output", QInt(Str(1))),
                              TokenPrice("m1", "p1", "input", QInt(Str(3))),
                              TokenPrice("m1", "p1", "input", QInt(Str(1)))>>,
                            Some(<<UnitRate("compute.seconds", QInt(Str(1)))>>),
                            Some(<<>>))),
     Some(ConversionContext(<<TokenPrice("m1", "p1", "input", QDec(Str(1), 2))>>, None, None))}

\* meters an execution may report
UsedMeters ==
    {Meter("tokens.input", QInt(Str(5))),
     Meter("tokens.input", QInt(Str(15))),
     Meter("tokens.input", QRat(Str(1), Str(2))),
     Meter("tokens.cached", QInt(Str(5))),
     Meter("compute.seconds", QInt(Str(5))),
     Meter("http.requests", QInt(Str(5))),
     Meter("usd", QDec(Str(5), 0))}
MeterLists == UNION {[1..n -> UsedMeters] : n \in 0..MaxMeters}

\* meter_caps of a grant, or the meter_reservation of an action
CapLists ==
    {<<Meter("usd", QInt(Str(10)))>>,
     <<Meter("tokens.input", QInt(Str(10)))>>,
     <<Meter("tokens.input", QInt(Str(10))), Meter("usd", QInt(Str(10)))>>,
     <<Meter("tokens.input", QInt(Str(10))), Meter("tokens.input", QInt(Str(20)))>>,
     <<Meter("usd", QInt(Str(10))), Meter("compute.seconds", QInt(Str(3)))>>}

\* the digest an execution records for its pricing snapshot
SnapshotDigests(conversion) ==
    {None, Some(Sha256("northroot:price-index:v1", [foreign |-> TRUE]))}
    \cup (IF conversion.some THEN {Some(compute_snapshot_digest(conversion.v))} ELSE {})

Authorizations(decisions, kinds) ==
    {AuthorizationEvent(TRUE, "authorization", "1", decision, kind) :
        decision \in decisions, kind \in kinds}

\* an execution that passes every check made before the bounds
LinkedExecution(au, used, result, model) ==
    ExecutionEvent(TRUE, "execution", "1", au.event_id, Intent1, "t1", used, result, model,
                   None)

\* executions against an allow or a deny, passing or failing each of the checks
\* made before the bounds
LinkageInit ==
    \E au \in Authorizations({"allow", "deny"},
                             {Grant(<<"t1">>, <<Meter("tokens.input", QInt(Str(10)))>>),
                              Action("t1", None),
                              Action("t1", Some(<<Meter("tokens.input", QInt(Str(10)))>>))}),
       cv \in {None, Some(ConversionContext(<<>>, None, None))},
       used \in {<<>>, <<Meter("tokens.input", QInt(Str(5)))>>,
                 <<Meter("tokens.input", QInt(Str(15)))>>,
                 <<Meter("tokens.input", QF64(1))>>},
       result \in Results,
       id_ok \in BOOLEAN,
       shape \in {<<"execution", "1">>, <<"authorization", "1">>, <<"execution", "2">>},
       linked \in BOOLEAN,
       idg \in IntentDigests,
       tool \in {"t1", "t2"} :
         \E psd \in SnapshotDigests(cv) :
            /\ exec = ExecutionEvent(id_ok, shape[1], shape[2],
                                     IF linked THEN au.event_id ELSE ForeignId, idg, tool,
                                     used, result,
                                     [model_id |-> Some("m1"), provider |-> Some("p1")], psd)
            /\ auth = au
            /\ conv = cv

\* executions that pass the link checks, against every list of caps
BoundsInit ==
    \E caps \in CapLists, granted \in BOOLEAN, cv \in Conversions, used \in MeterLists,
       result \in Results, model \in Models :
         /\ auth = AuthorizationEvent(TRUE, "authorization", "1", "allow",
                                      IF granted THEN Grant(<<"t1">>, caps)
                                      ELSE Action("t1", Some(caps)))
         /\ exec = LinkedExecution(auth, used, result, model)
         /\ conv = cv

\* one used meter against one cap of the same unit, both integers of the grammar
IntInit ==
    \E cap \in IntStrings, used \in IntStrings :
         /\ auth = AuthorizationEvent(TRUE, "authorization", "1", "allow",
                                      Grant(<<"t1">>, <<Meter("tokens.input", QInt(cap))>>))
         /\ exec = LinkedExecution(auth, <<Meter("tokens.input", QInt(used))>>,
                                   [outcome |-> "success", error_code |-> None],
                                   [model_id |-> None, provider |-> None])
         /\ conv = None

\* authorization events handed to verify_authorization
AuthorizationInputs ==
    {AuthorizationEvent(id_ok, event_type, event_version, decision, kind) :
        id_ok \in BOOLEAN,
        event_type \in {"authorization", "execution"},
        event_version \in {"1", "2"},
        decision \in {"allow", "deny"},
        kind \in {Grant(tools, caps) :
                     tools \in {<<>>, <<"t1">>},
                     caps \in {<<>>, <<Meter("usd", QInt(Str(10)))>>}}
                 \cup {Action("t1", None),
                       Action("t1", Some(<<Meter("usd", QInt(Str(10)))>>))}}

\* checkpoint.rs MerkleWindow
MerkleWindow(start_height, end_height) ==
    [start_height |-> start_height, end_height |-> end_height]

\* checkpoint.rs CheckpointEvent
CheckpointEvent(id_ok, event_type, event_version, tip, height, merkle_root, window) ==
    LET body == [event_type |-> event_type, event_version |-> event_version,
                 chain_tip_event_id |-> tip, chain_tip_height |-> height,
                 merkle_root |-> merkle_root, window |-> window]
    IN  WithEventId(body, IF id_ok THEN compute_event_id(body) ELSE ForeignId)

\* Option<u64> heights of a window
Heights == {None} \cup {Some(h) : h \in 0..MaxHeight}

\* checkpoint events handed to verify_checkpoint
CheckpointInputs ==
    {CheckpointEvent(id_ok, event_type, event_version, ForeignId, 1, merkle_root, window) :
        id_ok \in BOOLEAN,
        event_type \in {"checkpoint", "execution"},
        event_version \in {"1", "2"},
        merkle_root \in {None, Some(Sha256("northroot:merkle:v1", [root |-> TRUE]))},
        window \in {None} \cup {Some(MerkleWindow(a, b)) : a \in Heights, b \in Heights}}

(***************************************************************************)
(* The verifier: a call takes the events it is handed and returns the      *)
(* recomputed event id with the verdict.                                   *)
(***************************************************************************)
VInit ==
    /\ JInit
    /\ verdict = NoVerdict
    /\ \/ event = NoEvent /\ LinkageInit
       \/ event = NoEvent /\ BoundsInit
       \/ event = NoEvent /\ IntInit
       \/ \E au \in AuthorizationInputs :
              exec = NoEvent /\ auth = au /\ conv = None /\ event = NoEvent
       \/ \E cp \in CheckpointInputs :
              exec = NoEvent /\ auth = NoEvent /\ conv = None /\ event = cp

VerifyExecution ==
    /\ verdict = NoVerdict
    /\ exec # NoEvent
    /\ verdict' = [computed_id |-> compute_event_id(exec),
                   verdict |-> verify_execution(exec, auth, conv)]
    /\ UNCHANGED <<exec, auth, conv, event>>
    /\ UNCHANGED jvars

VerifyAuthorization ==
    /\ verdict = NoVerdict
    /\ exec = NoEvent
    /\ auth # NoEvent
    /\ verdict' = [computed_id |-> compute_event_id(auth),
                   verdict |-> verify_authorization(auth)]
    /\ UNCHANGED <<exec, auth, conv, event>>
    /\ UNCHANGED jvars

VerifyCheckpoint ==
    /\ verdict = NoVerdict
    /\ event # NoEvent
    /\ verdict' = [computed_id |-> compute_event_id(event),
                   verdict |-> verify_checkpoint(event)]
    /\ UNCHANGED <<exec, auth, conv, event>>
    /\ UNCHANGED jvars

VNext == VerifyExecution \/ VerifyAuthorization \/ VerifyCheckpoint

VerifierSpec == VInit /\ [][VNext]_vars

(***************************************************************************)
(* Event ids of JSON events: an event is stamped with the id computed from *)
(* it without its event_id, and its id is verified.                        *)
(***************************************************************************)
\* members a JSON event may hold: a type, a number, a string, a nested object
\* with an event_id of its own, and event_ids that are not the event's id
EventMembers ==
    {[k |-> STR_event_type, v |-> JStr(STR_test)],
     [k |-> <<97>>, v |-> JNum(1)],
     [k |-> <<97>>, v |-> JStr(<<49>>)],
     [k |-> <<98>>, v |-> JObj(<<[k |-> STR_event_id, v |-> JNum(1)]>>)],
     [k |-> <<99>>, v |-> JArr(<<JNum(1), JStr(<<49>>)>>)],
     [k |-> STR_event_id, v |-> DigestToValue(Digest(<<120>>))],
     [k |-> STR_event_id, v |-> JStr(<<120>>)]}

JsonEvents ==
    {JObj(m) : m \in {x \in UNION {[1..n -> EventMembers] : n \in 1..MaxMembers} :
                         \A i, j \in 1..Len(x) : x[i].k = x[j].k => i = j}}

EventIdInit ==
    /\ JInit
    /\ exec = NoEvent /\ auth = NoEvent /\ conv = None
    /\ event \in JsonEvents
    /\ verdict = NoVerdict

\* the id of the event without its event_id is computed and stamped into it
\* (append.rs 88-92)
StampEventId ==
    /\ verdict = NoVerdict
    /\ event' = Stamp(event, value_compute_event_id(JObj(Remove(event.m, STR_event_id))).id)
    /\ verdict' = [verdict |-> "none", stamped |-> TRUE]
    /\ UNCHANGED <<exec, auth, conv>>
    /\ UNCHANGED jvars

VerifyEventId ==
    /\ verdict.verdict = "none"
    /\ verdict' = [verdict |-> verify_event_id(event), stamped |-> verdict # NoVerdict]
    /\ UNCHANGED <<exec, auth, conv, event>>
    /\ UNCHANGED jvars

EventIdNext == StampEventId \/ VerifyEventId

EventIdSpec == EventIdInit /\ [][EventIdNext]_vars

(***************************************************************************)
(* The commands that write a journal: append, gen and checkpoint, and a    *)
(* caller of JournalWriter::append_event.  Each command opens the journal, *)
(* does its work and closes it; journal is the history of what was         *)
(* appended, event the event the last command built, verdict its outcome.  *)
(***************************************************************************)
\* JournalWriter::open with WriteOptions {create: true, append: true}
OpenForAppend(f) ==
    IF Len(f) = 0 THEN [ok |-> TRUE, file |-> WriteAt(f, 0, HeaderToBytes)]
    ELSE IF Len(f) < HEADER_SIZE THEN [ok |-> FALSE, file |-> f]
    ELSE IF ~HeaderFromBytes(Take(f, HEADER_SIZE)) THEN [ok |-> FALSE, file |-> f]
    ELSE [ok |-> TRUE, file |-> f]

\* append_event of each of events at the end of an open journal
RECURSIVE AppendEvents(_, _)
AppendEvents(f, events) ==
    IF events = <<>> THEN [ok |-> TRUE, file |-> f]
    ELSE IF ~RecordFrameNew(FRAME_KIND_EVENT_JSON, AsU32(Len(ToVec(events[1])))).ok
    THEN [ok |-> FALSE, file |-> f]
    ELSE AppendEvents(WriteAt(f, SeekEnd(f), FrameBytes(FRAME_KIND_EVENT_JSON, ToVec(events[1]))),
                      Tail(events))

\* open, append_event of each of events, finish
WriteEvents(f, events) ==
    IF ~OpenForAppend(f).ok THEN [ok |-> FALSE, file |-> f]
    ELSE AppendEvents(OpenForAppend(f).file, events)

\* JournalBackendWriter: open, append of each of events, finish
StoreWriteEvents(f, events) == WriteEvents(f, events)

\* the records of events in the history
EventRecs(events) ==
    [i \in 1..Len(events) |-> Rec(FRAME_KIND_EVENT_JSON, ToVec(events[i]), "event", events[i])]

\* the outcome of a command
Outcome(command, result) == [verdict |-> result, command |-> command]

\* the state a command that wrote events leaves
Written(command, events, w) ==
    /\ file' = w.file
    /\ journal' = IF w.ok THEN journal \o EventRecs(events) ELSE journal
    /\ verdict' = Outcome(command, IF w.ok THEN "ok" ELSE "error")

\* the state a command that failed before writing leaves
Failed(command) ==
    /\ verdict' = Outcome(command, "error")
    /\ UNCHANGED <<file, journal, event>>

CliUnchanged ==
    UNCHANGED <<wpc, wpos, wbuf, wpayload, header_written, wres, base, cut, rpc, rmode,
                position, rframe, rout, sessions, nbase, wappend, exec, auth, conv>>

\* append.rs run: the input is a JSON object
CmdAppend(input, strict) ==
    /\ Len(journal) < MaxRecords
    /\ IF /\ strict
          /\ Get(input, STR_event_id).some
          /\ Get(input, STR_event_id).v # DigestToValue(value_compute_event_id(input).id)
       THEN Failed("append")
       ELSE /\ event' = Stamp(input, value_compute_event_id(input).id)
            /\ Written("append", <<event'>>, WriteEvents(file, <<event'>>))
    /\ CliUnchanged

\* the events gen builds with count_exec_ok = count_exec_bad = 0
GenSequence(count_auth, with_bad) ==
    [i \in 1..count_auth |-> build_auth(i - 1, 0)]
    \o (IF with_bad THEN <<build_malformed>> ELSE <<>>)

\* gen.rs run
CmdGen(count_auth, with_bad, force) ==
    /\ Len(journal) + Len(GenSequence(count_auth, with_bad)) <= MaxRecords
    /\ IF Len(file) > 0 /\ ~force
       THEN Failed("gen")
       ELSE /\ event' = NoEvent
            /\ Written("gen", GenSequence(count_auth, with_bad),
                       StoreWriteEvents(file, GenSequence(count_auth, with_bad)))
    /\ CliUnchanged

\* a caller of the library: JournalWriter::open, append_event, finish
LibAppend(e) ==
    /\ Len(journal) < MaxRecords
    /\ event' = e
    /\ Written("append_event", <<e>>, WriteEvents(file, <<e>>))
    /\ CliUnchanged

\* checkpoint.rs 28-39: the loop over read_event from position pos on
RECURSIVE ScanChainTip(_, _, _, _)
ScanChainTip(f, pos, tip, height) ==
    LET r == ReadEvent(f, pos, "Strict")
    IN  IF r.tag = "Some"
        THEN ScanChainTip(f, r.pos, IF TipOf(r.ev).some THEN TipOf(r.ev) ELSE tip, height + 1)
        ELSE [ok |-> r.tag = "None", chain_tip_event_id |-> tip, chain_tip_height |-> height]

\* checkpoint.rs run, with a valid principal
CmdCheckpoint(json_output) ==
    /\ json_output \/ Len(journal) < MaxRecords
    /\ IF ~(Len(file) >= HEADER_SIZE /\ HeaderFromBytes(Take(file, HEADER_SIZE)))
       THEN Failed("checkpoint")
       ELSE LET scan == ScanChainTip(file, HEADER_SIZE, [some |-> FALSE], 0)
            IN  IF ~scan.ok \/ ~scan.chain_tip_event_id.some
                THEN Failed("checkpoint")
                ELSE /\ event' = CheckpointValue(scan.chain_tip_event_id.v, scan.chain_tip_height)
                     /\ IF json_output
                        THEN /\ verdict' = Outcome("checkpoint --json", "ok")
                             /\ UNCHANGED <<file, journal>>
                        ELSE Written("checkpoint", <<event'>>, WriteEvents(file, <<event'>>))
    /\ CliUnchanged

CliNext ==
    \/ \E input \in AppendInputs, strict \in BOOLEAN : CmdAppend(input, strict)
    \/ \E count_auth \in 0..MaxRecords, with_bad, force \in BOOLEAN :
          CmdGen(count_auth, with_bad, force)
    \/ \E e \in JsonValues : LibAppend(e)
    \/ \E json_output \in BOOLEAN : CmdCheckpoint(json_output)

CliSpec == Init /\ [][CliNext]_vars

(***************************************************************************)
(* identifiers.rs: the newtype identifiers ProfileId, PrincipalId,         *)
(* ToolName and Timestamp, their patterns, and the ways to make one.       *)
(* Strings are ASCII bytes.                                                *)
(***************************************************************************)
IsLower(c) == c \in 97..122
IsUpper(c) == c \in 65..90

\* the position of the first c in s, or Len(s) + 1
RECURSIVE IndexOf(_, _)
IndexOf(s, c) == IF s = <<>> \/ s[1] = c THEN 1 ELSE 1 + IndexOf(Tail(s), c)

\* s cut at every c
RECURSIVE Split(_, _)
Split(s, c) ==
    IF IndexOf(s, c) > Len(s) THEN <<s>>
    ELSE <<Take(s, IndexOf(s, c) - 1)>> \o Split(Drop(s, IndexOf(s, c)), c)

\* ^[A-Za-z0-9_-]{16,128}$
ProfileIdPattern(s) ==
    /\ Len(s) \in 16..128
    /\ \A i \in 1..Len(s) : IsUpper(s[i]) \/ IsLower(s[i]) \/ IsDigit(s[i]) \/ s[i] \in {95, 45}

\* ^(human|service|agent|org):[a-z][a-z0-9_-]{0,62}$
PrincipalIdPattern(s) ==
    LET kind == Take(s, IndexOf(s, 58) - 1)
        name == Drop(s, IndexOf(s, 58))
    IN  /\ IndexOf(s, 58) <= Len(s)
        /\ kind \in {<<104, 117, 109, 97, 110>>, <<115, 101, 114, 118, 105, 99, 101>>,
                     <<97, 103, 101, 110, 116>>, <<111, 114, 103>>}
        /\ Len(name) \in 1..63
        /\ IsLower(name[1])
        /\ \A i \in 2..Len(name) : IsLower(name[i]) \/ IsDigit(name[i]) \/ name[i] \in {95, 45}

\* ^[a-z][a-z0-9_]*([.][a-z][a-z0-9_]*){0,7}$
ToolNamePattern(s) ==
    /\ Len(Split(s, 46)) \in 1..8
    /\ \A k \in 1..Len(Split(s, 46)) :
          LET part == Split(s, 46)[k]
          IN  /\ Len(part) >= 1
              /\ IsLower(part[1])
              /\ \A i \in 2..Len(part) : IsLower(part[i]) \/ IsDigit(part[i]) \/ part[i] = 95

\* ^\d{4}-\d{2}-\d{2}T\d{2}:\d{2}:\d{2}(\.\d{1,9})?Z$
TimestampPattern(s) ==
    /\ Len(s) >= 20
    /\ \A i \in {1, 2, 3, 4, 6, 7, 9, 10, 12, 13, 15, 16, 18, 19} : IsDigit(s[i])
    /\ s[5] = 45 /\ s[8] = 45 /\ s[11] = 84 /\ s[14] = 58 /\ s[17] = 58
    /\ s[Len(s)] = 90
    /\ \/ Len(s) = 20
       \/ /\ s[20] = 46
          /\ Len(s) - 21 \in 1..9
          /\ \A i \in 21..(Len(s) - 1) : IsDigit(s[i])

IdTypes == {"ProfileId", "PrincipalId", "ToolName", "Timestamp"}

\* Regex::new($pattern).is_match(&s)
IsMatch(name, s) ==
    CASE name = "ProfileId" -> ProfileIdPattern(s)
      [] name = "PrincipalId" -> PrincipalIdPattern(s)
      [] name = "ToolName" -> ToolNamePattern(s)
      [] name = "Timestamp" -> TimestampPattern(s)

\* an identifier: the newtype and the string it wraps
Identifier(name, s) == [type |-> name, value |-> s]

\* $name::parse
IdParse(name, s) ==
    IF ~IsMatch(name, s) THEN [ok |-> FALSE, id |-> NoEvent]
    ELSE [ok |-> TRUE, id |-> Identifier(name, s)]

\* $name::new
IdNew(name, s) == [ok |-> TRUE, id |-> Identifier(name, s)]

\* From<String> for $name
IdFrom(name, s) == [ok |-> TRUE, id |-> Identifier(name, s)]

\* derive(Deserialize) with serde(transparent): the identifier of any JSON string
IdDeserialize(name, v) ==
    IF v.t # "str" THEN [ok |-> FALSE, id |-> NoEvent]
    ELSE [ok |-> TRUE, id |-> Identifier(name, v.s)]

\* strings handed to the constructors: for each type some that match its
\* pattern and some that do not
IdStrings ==
    {<<110, 111, 114, 116, 104, 114, 111, 111, 116, 45, 99, 97, 110, 111, 110, 105, 99, 97, 108, 45, 118, 49>>,
     <<112, 114, 111, 102, 105, 108, 101, 105, 100, 48, 48, 48, 48, 48, 48, 48, 48, 49>>,
     <<115, 104, 111, 114, 116>>,
     <<110, 111, 114, 116, 104, 114, 111, 111, 116, 32, 99, 97, 110, 111, 110, 105, 99, 97, 108, 32, 118, 49>>,
     <<115, 101, 114, 118, 105, 99, 101, 58, 116, 101, 115, 116>>,
     <<104, 117, 109, 97, 110, 58, 97>>,
     <<83, 101, 114, 118, 105, 99, 101, 58, 116, 101, 115, 116>>,
     <<114, 111, 98, 111, 116, 58, 120>>,
     <<115, 101, 114, 118, 105, 99, 101, 58>>,
     <<115, 101, 114, 118, 105, 99, 101, 58, 57, 97>>,
     <<116, 101, 115, 116, 46, 116, 111, 111, 108>>,
     <<99, 97, 110, 111, 110>>,
     <<108, 108, 109, 46, 46, 103, 101, 110, 101, 114, 97, 116, 101>>,
     <<84, 101, 115, 116, 46, 116, 111, 111, 108>>,
     <<46, 97>>,
     <<97, 46, 98, 46, 99, 46, 100, 46, 101, 46, 102, 46, 103, 46, 104>>,
     <<97, 46, 98, 46, 99, 46, 100, 46, 101, 46, 102, 46, 103, 46, 104, 46, 105>>,
     <<50, 48, 50, 52, 45, 48, 49, 45, 48, 49, 84, 48, 48, 58, 48, 48, 58, 48, 48, 90>>,
     <<50, 48, 50, 52, 45, 48, 49, 45, 48, 49, 84, 48, 48, 58, 48, 48, 58, 48, 48, 46, 53, 90>>,
     <<50, 48, 50, 52, 45, 48, 49, 45, 48, 49, 84, 48, 48, 58, 48, 48, 58, 48, 48>>,
     <<50, 48, 50, 52, 45, 48, 49, 45, 48, 49, 84, 48, 48, 58, 48, 48, 58, 48, 48, 46, 90>>,
     <<50, 48, 50, 52, 45, 48, 49, 45, 48, 49, 32, 48, 48, 58, 48, 48, 58, 48, 48, 90>>,
     <<50, 48, 50, 52, 45, 48, 49, 45, 48, 49, 84, 48, 48, 58, 48, 48, 58, 48, 48, 46, 49, 50, 51, 52, 53, 54, 55, 56, 57, 48, 90>>,
     <<50, 48, 50, 52, 45, 48, 49, 45, 48, 49, 84, 48, 48, 58, 48, 48, 58, 48, 48, 46, 49, 50, 51, 52, 53, 54, 55, 56, 57, 90>>,
     <<>>}

\* one identifier is made; event holds it, verdict how it was made
MakeIdentifier(how, result) ==
    /\ verdict = [verdict |-> "none"]
    /\ event' = result.id
    /\ verdict' = [verdict |-> IF result.ok THEN "ok" ELSE "error", how |-> how]
    /\ UNCHANGED <<exec, auth, conv>>
    /\ UNCHANGED jvars

Parse(name, s) == MakeIdentifier("parse", IdParse(name, s))
New(name, s) == MakeIdentifier("new", IdNew(name, s))
From(name, s) == MakeIdentifier("from", IdFrom(name, s))
Deserialize(name, v) == MakeIdentifier("deserialize", IdDeserialize(name, v))

IdNext ==
    \/ \E name \in IdTypes, s \in IdStrings : Parse(name, s)
    \/ \E name \in IdTypes, s \in IdStrings : New(name, s)
    \/ \E name \in IdTypes, s \in IdStrings : From(name, s)
    \/ \E name \in IdTypes, v \in {JStr(s) : s \in IdStrings} \cup {JNum(1)} : Deserialize(name, v)

IdSpec == Init /\ [][IdNext]_vars

(***************************************************************************)
(* store/src/filter.rs: the event filters and the FilteredReader.          *)
(***************************************************************************)
\* Value::as_str of a member
GetStr(e, key) ==
    IF Get(e, key).some /\ Get(e, key).v.t = "str" THEN Some(Get(e, key).v.s) ELSE None

EventTypeFilter(event_type) == [kind |-> "EventType", event_type |-> event_type]
TimeRangeFilter(after, before) == [kind |-> "TimeRange", after |-> after, before |-> before]
AndFilter(filters) == [kind |-> "And", filters |-> filters]
OrFilter(filters) == [kind |-> "Or", filters |-> filters]

\* TimeRangeFilter::matches
TimeRangeMatches(filter, e) ==
    LET occurred_at == GetStr(e, STR_occurred_at)
    IN  IF ~occurred_at.some THEN FALSE
        ELSE IF filter.after.some /\ StrCmp(occurred_at.v, filter.after.v.value) = "Less"
        THEN FALSE
        ELSE IF filter.before.some /\ StrCmp(occurred_at.v, filter.before.v.value) = "Greater"
        THEN FALSE
        ELSE TRUE

\* EventFilter::matches
RECURSIVE matches(_, _)
matches(filter, e) ==
    CASE filter.kind = "EventType" ->
           GetStr(e, STR_event_type).some /\ GetStr(e, STR_event_type).v = filter.event_type
      [] filter.kind = "TimeRange" -> TimeRangeMatches(filter, e)
      [] filter.kind = "And" -> \A i \in 1..Len(filter.filters) : matches(filter.filters[i], e)
      [] filter.kind = "Or" -> \E i \in 1..Len(filter.filters) : matches(filter.filters[i], e)

\* timestamps valid under the Timestamp pattern: whole seconds and fractions
Timestamps ==
    {<<50, 48, 50, 52, 45, 48, 49, 45, 48, 49, 84, 48, 48, 58, 48, 48, 58, 48, 48, 90>>,
     <<50, 48, 50, 52, 45, 48, 49, 45, 48, 49, 84, 48, 48, 58, 48, 48, 58, 48, 48, 46, 53, 90>>,
     <<50, 48, 50, 52, 45, 48, 49, 45, 48, 49, 84, 48, 48, 58, 48, 48, 58, 48, 48, 46, 53, 48, 90>>,
     <<50, 48, 50, 52, 45, 48, 49, 45, 48, 49, 84, 48, 48, 58, 48, 48, 58, 48, 49, 90>>,
     <<50, 48, 50, 52, 45, 48, 49, 45, 48, 49, 84, 49, 50, 58, 48, 48, 58, 48, 48, 90>>}

\* the bounds of a TimeRangeFilter
TimeBounds == {None} \cup {Some(IdParse("Timestamp", t).id) : t \in Timestamps}

TimeRangeFilters == {TimeRangeFilter(after, before) : after \in TimeBounds, before \in TimeBounds}

\* events of the store: with an occurred_at, with one that is not a string, and
\* without one
StoreEvents ==
    {JObj(<<Member(STR_event_type, JStr(ty)), Member(STR_occurred_at, JStr(t))>>) :
        ty \in {STR_authorization, STR_test}, t \in Timestamps}
    \cup {JObj(<<Member(STR_event_type, JStr(STR_test)), Member(STR_occurred_at, JNum(1))>>),
          JObj(<<Member(STR_event_type, JStr(STR_authorization))>>)}

\* one event is put to one time range filter
FilterInit ==
    /\ JInit
    /\ exec = NoEvent /\ auth = NoEvent
    /\ conv \in TimeRangeFilters
    /\ event \in StoreEvents
    /\ verdict = NoVerdict

FilterMatches ==
    /\ verdict = NoVerdict
    /\ verdict' = [verdict |-> "matches", result |-> matches(conv, event)]
    /\ UNCHANGED <<exec, auth, conv, event>>
    /\ UNCHANGED jvars

FilterNext == FilterMatches

FilterSpec == FilterInit /\ [][FilterNext]_vars

\* the reader a FilteredReader wraps (R: StoreReader), over the events it holds:
\* read_next gives the next one, None after the last
UnderlyingReadNext(events, pos) ==
    IF pos < Len(events) THEN [tag |-> "Some", ev |-> events[pos + 1], pos |-> pos + 1]
    ELSE [tag |-> "None", ev |-> NoEvent, pos |-> pos]

\* mutant: the first event that does not match ends the reading
RECURSIVE FilteredReadNext_StopAtMismatch(_, _, _)
FilteredReadNext_StopAtMismatch(filter, events, pos) ==
    LET r == UnderlyingReadNext(events, pos)
    IN  IF r.tag = "None" THEN r
        ELSE IF matches(filter, r.ev) THEN r
        ELSE [tag |-> "None", ev |-> NoEvent, pos |-> r.pos]

\* FilteredReader::read_next
RECURSIVE FilteredReadNext(_, _, _)
FilteredReadNext(filter, events, pos) ==
    LET r == UnderlyingReadNext(events, pos)
    IN  IF r.tag = "None" THEN r
        ELSE IF matches(filter, r.ev) THEN r
        ELSE FilteredReadNext(filter, events, r.pos)

\* the events of the wrapped reader
StreamEvents ==
    {e \in StoreEvents : GetStr(e, STR_occurred_at).some =>
                            /\ Len(GetStr(e, STR_occurred_at).v) = 20
                            /\ GetStr(e, STR_occurred_at).v # STR_timestamp}

Streams == UNION {[1..n -> StreamEvents] : n \in 0..MaxRecords}

\* filters of each kind
Filters ==
    LET types == {EventTypeFilter(STR_authorization), EventTypeFilter(STR_test)}
        ranges == {TimeRangeFilter(None, a) : a \in TimeBounds \ {None}}
    IN  types \cup {f \in ranges : Len(f.before.v.value) = 20}
        \cup {AndFilter(<<EventTypeFilter(STR_test), f>>) : f \in {g \in ranges : Len(g.before.v.value) = 20}}
        \cup {OrFilter(<<EventTypeFilter(STR_test), EventTypeFilter(STR_authorization)>>),
              OrFilter(<<>>), AndFilter(<<>>)}

\* FilteredReader::new(reader, filter): journal holds the events of the wrapped
\* reader, position how many of them were read, rout the results of read_next
StoreInit ==
    /\ file = <<>> /\ wpc = "none" /\ wpos = 0 /\ wbuf = <<>> /\ wpayload = <<>>
    /\ header_written = FALSE /\ wres = "ok" /\ base = <<>>
    /\ cut = 0 /\ sessions = 0 /\ nbase = 0 /\ wappend = TRUE
    /\ rpc = "idle" /\ rmode = "Strict" /\ position = 0 /\ rframe = NoFrame /\ rout = <<>>
    /\ journal \in Streams
    /\ conv \in Filters
    /\ exec = NoEvent /\ auth = NoEvent /\ event = NoEvent
    /\ verdict = NoVerdict

\* one call of read_next on the FilteredReader
StoreReadNext ==
    /\ Len(rout) < MaxReads
    /\ LET r == FilteredReadNext(conv, journal, position)
       IN  /\ rout' = Append(rout, Result(r.tag, r.ev))
           /\ position' = r.pos
    /\ UNCHANGED <<file, wpc, wpos, wbuf, wpayload, header_written, wres, journal, base,
                   cut, sessions, nbase, wappend, rpc, rmode, rframe>>
    /\ UNCHANGED vvars

StoreNext == StoreReadNext

StoreSpec == StoreInit /\ [][StoreNext]_vars



(***************************************************************************)
(* Canonicalizer::canonicalize on two JSON values that are structurally    *)
(* equal: the same members, held by their maps in different orders.        *)
(***************************************************************************)
\* members a value may hold: keys that sort by case, by prefix and by length,
\* nested objects, and objects inside arrays
CanonMembers ==
    {Member(<<97>>, JNum(1)),
     Member(<<98>>, JStr(<<49>>)),
     Member(<<66>>, JNum(2)),
     Member(<<97, 97>>, JStr(<<97>>)),
     Member(<<99>>, JObj(<<Member(<<98>>, JNum(1)), Member(<<97>>, JNum(2))>>)),
     Member(<<100>>, JArr(<<JObj(<<Member(<<122>>, JNum(1)), Member(<<121>>, JStr(<<49>>))>>),
                            JNum(1)>>))}

CanonValues ==
    {JObj(m) : m \in {x \in UNION {[1..n -> CanonMembers] : n \in 1..MaxMembers} :
                         \A i, j \in 1..Len(x) : x[i].k = x[j].k => i = j}}

\* the orders in which a map may hold n members
Orders(n) == {f \in [1..n -> 1..n] : \A i, j \in 1..n : f[i] = f[j] => i = j}

\* the values structurally equal to v: at every object the members are held in
\* any order, arrays keep theirs
RECURSIVE Arrangements(_)
Arrangements(v) ==
    CASE v.t = "obj" ->
           LET n == Len(v.m)
               choices == [i \in 1..n |-> {Member(v.m[i].k, w) : w \in Arrangements(v.m[i].v)}]
               picks == {q \in [1..n -> UNION {choices[i] : i \in 1..n}] :
                            \A i \in 1..n : q[i] \in choices[i]}
           IN  {JObj([i \in 1..n |-> q[f[i]]]) : q \in picks, f \in Orders(n)}
      [] v.t = "arr" ->
           LET n == Len(v.a)
               choices == [i \in 1..n |-> Arrangements(v.a[i])]
           IN  {JArr(q) : q \in {q \in [1..n -> UNION {choices[i] : i \in 1..n}] :
                                    \A i \in 1..n : q[i] \in choices[i]}}
      [] OTHER -> {v}

CanonInit ==
    /\ JInit
    /\ exec = NoEvent /\ auth = NoEvent /\ conv = None
    /\ \E v \in CanonValues : \E w \in Arrangements(v) : event = [value |-> v, other |-> w]
    /\ verdict = NoVerdict

\* canonicalize of each of the two values
Canonicalize ==
    /\ verdict = NoVerdict
    /\ verdict' = [verdict |-> "canonical", value |-> canonicalize(event.value),
                   other |-> canonicalize(event.other)]
    /\ UNCHANGED <<exec, auth, conv, event>>
    /\ UNCHANGED jvars

CanonNext == Canonicalize

CanonSpec == CanonInit /\ [][CanonNext]_vars

(***************************************************************************)
(* JournalWriter::open on the files it may find on disk.                   *)
(***************************************************************************)
\* headers that differ from the valid one in one byte
AlteredHeaders ==
    {[HeaderToBytes EXCEPT ![i] = b] : i \in 1..HEADER_SIZE, b \in {0, 1, 255}}
    \ {HeaderToBytes}

\* files on disk: none or empty, shorter than a header, and headers, valid or
\* not, alone or followed by a record
FilesOnDisk ==
    {Take(h, n) : h \in AlteredHeaders \cup {HeaderToBytes}, n \in {0, 1, 4, HEADER_SIZE - 1}}
    \cup {h \o t : h \in AlteredHeaders \cup {HeaderToBytes},
                   t \in {<<>>, FrameBytes(FRAME_KIND_EVENT_JSON, ToVec(JNum(1)))}}

OpenInit ==
    /\ file \in FilesOnDisk
    /\ wpc = "none" /\ wpos = 0 /\ wbuf = <<>> /\ wpayload = <<>>
    /\ header_written = FALSE /\ wres = "ok" /\ journal = <<>> /\ base = <<>>
    /\ cut = 0 /\ sessions = 0 /\ nbase = 0 /\ wappend = TRUE
    /\ rpc = "none" /\ rmode = "Strict" /\ position = 0 /\ rframe = NoFrame /\ rout = <<>>
    /\ VIdle

OpenNext == \E append \in BOOLEAN : WOpen(append)

OpenSpec == OpenInit /\ [][OpenNext]_vars

(***************************************************************************)
(* append_raw on payloads of any length a slice may have.  A length is     *)
(* held in two limbs, hi * 2^16 + lo, so that lengths of 2^32 and more are *)
(* told from their 32-bit truncations; the file is held by its length and  *)
(* the frames written to it.                                               *)
(***************************************************************************)
LIMB == 65536

\* the length n * LIMB + k
Size(n, k) == [hi |-> n + k \div LIMB, lo |-> k % LIMB]

\* usize addition
SizeAdd(a, b) == Size(a.hi + b.hi, a.lo + b.lo)

\* a > b
SizeGreater(a, b) == a.hi > b.hi \/ (a.hi = b.hi /\ a.lo > b.lo)

\* payload.len() as u32: the low 32 bits
SizeAsU32(n) == Size(n.hi % LIMB, n.lo)

\* RecordFrame::new on a length
SizedFrameNew(kind, len) ==
    IF SizeGreater(len, Size(0, MAX_PAYLOAD_SIZE))
    THEN [ok |-> FALSE, kind |-> kind, len |-> len]
    ELSE [ok |-> TRUE, kind |-> kind, len |-> len]

\* the payload lengths handed to append_raw: around 0, 16 MiB, 2^32 and
\* 2^32 + 16 MiB
PayloadSizes ==
    {Size(n, k) : n \in {0, 1, 255, 256, 257, LIMB - 1, LIMB, LIMB + 1, LIMB + 256, LIMB + 257},
                  k \in {0, 1, 5, LIMB - 1}}

SizedInit ==
    /\ JInit
    /\ VIdle

\* JournalWriter::open of a new file, then append_raw of a payload of length n
\* (wpayload); base and wpos are the file's length before and after the call,
\* journal the frames written: the length in the header and that of the payload
AppendRawSized(n) ==
    /\ Len(journal) < MaxRecords
    /\ wpayload' = n
    /\ base' = IF journal = <<>> THEN Size(0, HEADER_SIZE) ELSE wpos
    /\ IF ~SizedFrameNew(FRAME_KIND_EVENT_JSON, SizeAsU32(n)).ok
       THEN /\ wres' = "PayloadTooLarge"
            /\ wpos' = base'
            /\ UNCHANGED journal
       ELSE /\ wres' = "ok"
            /\ wpos' = SizeAdd(SizeAdd(base', Size(0, FRAME_HEADER_SIZE)), n)
            /\ journal' = Append(journal, [len |-> SizedFrameNew(FRAME_KIND_EVENT_JSON,
                                                                SizeAsU32(n)).len,
                                           payload |-> n])
    /\ wpc' = "idle"
    /\ header_written' = TRUE
    /\ UNCHANGED <<file, wbuf, cut, rpc, rmode, position, rframe, rout, sessions, nbase, wappend>>
    /\ UNCHANGED vvars

SizedNext == \E n \in PayloadSizes : AppendRawSized(n)

SizedSpec == SizedInit /\ [][SizedNext]_vars

\* the events a reader finds in the file from position pos on
RECURSIVE PersistedEvents(_, _)
PersistedEvents(f, pos) ==
    LET r == ReadEvent(f, pos, "Strict")
    IN  IF r.tag = "Some" THEN <<r.ev>> \o PersistedEvents(f, r.pos) ELSE <<>>

(***************************************************************************)
(* store/src/typed.rs: parse_event.                                        *)
(***************************************************************************)
STR_execution == <<101, 120, 101, 99, 117, 116, 105, 111, 110>>
STR_attestation == <<97, 116, 116, 101, 115, 116, 97, 116, 105, 111, 110>>

\* a member of the object is there and is a string (String, and the transparent
\* newtypes Timestamp, PrincipalId, ProfileId)
HasString(json, key) == GetStr(json, key).some

\* a member of the object is there and deserializes as a Digest
HasDigest(json, key) == Get(json, key).some /\ DigestFromValue(Get(json, key).v).some

\* serde_json::from_value into the struct of an event type succeeds: the
\* members every event struct requires are there and have their types, and for
\* a checkpoint its chain tip; the further members of the other structs are
\* not held by the events of the model
FromValueOk(event_type, json) ==
    /\ json.t = "obj"
    /\ HasDigest(json, STR_event_id)
    /\ HasString(json, STR_event_type)
    /\ HasString(json, STR_event_version)
    /\ HasString(json, STR_occurred_at)
    /\ HasString(json, STR_principal_id)
    /\ HasString(json, STR_canonical_profile_id)
    /\ event_type = STR_checkpoint =>
          /\ HasDigest(json, STR_chain_tip_event_id)
          /\ Get(json, STR_chain_tip_height).some
          /\ Get(json, STR_chain_tip_height).v.t = "num"

\* the variant of TypedEvent for an event_type
Variant(event_type) ==
    CASE event_type = STR_authorization -> "Authorization"
      [] event_type = STR_execution -> "Execution"
      [] event_type = STR_checkpoint -> "Checkpoint"
      [] event_type = STR_attestation -> "Attestation"
      [] OTHER -> "Unknown"

\* typed.rs parse_event
parse_event(json) ==
    LET event_type == IF GetStr(json, STR_event_type).some
                      THEN GetStr(json, STR_event_type).v ELSE <<>>
    IN  IF Variant(event_type) = "Unknown"
        THEN [ok |-> TRUE, variant |-> "Unknown", json |-> json]
        ELSE IF ~FromValueOk(event_type, json)
        THEN [ok |-> FALSE, variant |-> "Deserialize", json |-> NoEvent]
        ELSE [ok |-> TRUE, variant |-> Variant(event_type), json |-> json]

\* events handed to parse_event: those of the commands, of the store and of the
\* event id functions, and typed events with a member missing
ParseInputs ==
    JsonEvents \cup AppendedEvents \cup GenEvents \cup CommandEvents(1) \cup StoreEvents
    \cup {JObj(Remove(build_auth(0, 0).m, k)) : k \in {STR_event_id, STR_occurred_at}}
    \cup {JObj(Insert(build_auth(0, 0).m, STR_event_type, JStr(ty))) :
             ty \in {STR_execution, STR_attestation, STR_checkpoint}}

ParseInit ==
    /\ JInit
    /\ exec = NoEvent /\ auth = NoEvent /\ conv = None
    /\ event \in ParseInputs
    /\ verdict = NoVerdict

ParseEvent ==
    /\ verdict = NoVerdict
    /\ verdict' = [verdict |-> "parsed", result |-> parse_event(event)]
    /\ UNCHANGED <<exec, auth, conv, event>>
    /\ UNCHANGED jvars

ParseNext == ParseEvent

ParseSpec == ParseInit /\ [][ParseNext]_vars

(***************************************************************************)
(* verification.rs: compare_quantities on two quantities of one kind.      *)
(***************************************************************************)
TenTo(k) == <<49>> \o [i \in 1..k |-> 48]

DecQuantities == {QDec(m, sc) : m \in IntStrings, sc \in 0..MaxScale}

\* numerators and denominators of the grammar, some of them longer than the
\* digits of an i64, one of them longer than those of an i128
RatNumerators ==
    {Str(0), Str(1), Str(-1), Str(3), TenTo(20), <<45>> \o TenTo(20), TenTo(38), TenTo(39)}
RatDenominators == {Str(1), Str(2), TenTo(19), TenTo(20), TenTo(39)}
RatQuantities == {QRat(n, dd) : n \in RatNumerators, dd \in RatDenominators}

\* a used amount (exec) and a cap amount (auth) of the same kind
QuantityInit ==
    /\ JInit
    /\ event = NoEvent /\ conv = None
    /\ verdict = NoVerdict
    /\ \/ \E used \in DecQuantities, cap \in DecQuantities : exec = used /\ auth = cap
       \/ \E used \in RatQuantities, cap \in RatQuantities : exec = used /\ auth = cap

CompareQuantities ==
    /\ verdict = NoVerdict
    /\ verdict' = [verdict |-> "compared", result |-> compare_quantities(exec, auth)]
    /\ UNCHANGED <<exec, auth, conv, event>>
    /\ UNCHANGED jvars

QuantityNext == CompareQuantities

QuantitySpec == QuantityInit /\ [][QuantityNext]_vars

(***************************************************************************)
(* A journal whose last record was written in part only (the writer was    *)
(* stopped between or within its two write_all calls), then opened again   *)
(* by a writer with append and by readers.                                 *)
(***************************************************************************)
TailEvents == JsonValues \cup AppendedEvents

\* one complete record, then the first bytes of a second one; cut is the number
\* of bytes of the second record that never reached the file
TailInit ==
    /\ VIdle
    /\ \E first \in TailEvents, second \in TailEvents :
         \E missing \in 1..(Len(FrameBytes(FRAME_KIND_EVENT_JSON, ToVec(second))) - 1) :
             /\ file = HeaderToBytes \o FrameBytes(FRAME_KIND_EVENT_JSON, ToVec(first))
                           \o Take(FrameBytes(FRAME_KIND_EVENT_JSON, ToVec(second)),
                                   Len(FrameBytes(FRAME_KIND_EVENT_JSON, ToVec(second)))
                                       - missing)
             /\ journal = <<Rec(FRAME_KIND_EVENT_JSON, ToVec(first), "event", first)>>
             /\ cut = missing
    /\ base = file
    /\ wpc = "finished"
    /\ wpos = Len(file)
    /\ wbuf = <<>>
    /\ wpayload = <<>>
    /\ header_written = TRUE
    /\ wres = "ok"
    /\ sessions = 1
    /\ nbase = 1
    /\ wappend = TRUE
    /\ rpc = "none"
    /\ rmode = "Strict"
    /\ position = 0
    /\ rframe = NoFrame
    /\ rout = <<>>

TailNext ==
    \/ WOpen(TRUE)
    \/ \E e \in TailEvents : AppendEvent(e)
    \/ Finish
    \/ \E mode \in {"Strict", "Permissive"} : ROpen(mode)
    \/ ReadEventCall

TailSpec == TailInit /\ [][TailNext]_vars

(***************************************************************************)
(* verification.rs: executions under a grant, with several used meters of  *)
(* one unit; all amounts and prices are integers.                          *)
(***************************************************************************)
GrantCaps ==
    {<<Meter("tokens.input", QInt(Str(9)))>>,
     <<Meter("usd", QInt(Str(9)))>>,
     <<Meter("tokens.input", QInt(Str(9))), Meter("usd", QInt(Str(9)))>>}

GrantMeters ==
    {Meter(unit, QInt(Str(n))) : unit \in {"tokens.input", "compute.seconds", "usd"},
                                  n \in {1, 5}}
GrantMeterLists == UNION {[1..n -> GrantMeters] : n \in 0..MaxMeters}

GrantConversions == {cv \in Conversions : cv = None \/ cv.v.snapshot.token_prices[1].price_per_token.t = "int"}

GrantInit ==
    /\ JInit
    /\ event = NoEvent
    /\ verdict = NoVerdict
    /\ \E caps \in GrantCaps, cv \in GrantConversions, used \in GrantMeterLists :
         /\ auth = AuthorizationEvent(TRUE, "authorization", "1", "allow",
                                      Grant(<<"t1">>, caps))
         /\ exec = LinkedExecution(auth, used, [outcome |-> "success", error_code |-> None],
                                   [model_id |-> Some("m1"), provider |-> Some("p1")])
         /\ conv = cv

GrantNext == VerifyExecution

GrantSpec == GrantInit /\ [][GrantNext]_vars

(***************************************************************************)
(* event_id.rs: compute_event_id of two events.                            *)
(***************************************************************************)
\* two events (event, auth) whose ids are to be computed
PairInit ==
    /\ JInit
    /\ exec = NoEvent /\ conv = None
    /\ event \in JsonEvents
    /\ auth \in JsonEvents
    /\ verdict = NoVerdict

ComputeEventIds ==
    /\ verdict = NoVerdict
    /\ verdict' = [verdict |-> "ids", first |-> value_compute_event_id(event),
                   second |-> value_compute_event_id(auth)]
    /\ UNCHANGED <<exec, auth, conv, event>>
    /\ UNCHANGED jvars

PairNext == ComputeEventIds

PairSpec == PairInit /\ [][PairNext]_vars

(***************************************************************************)
(* cli/src/commands/verify.rs: the verify command over the events of a     *)
(* journal, each already parsed into its typed event.                      *)
(***************************************************************************)
IsAuthorization(ev) == ev.event_type = "authorization"

\* first pass (verify.rs 22-34): auth_map, keyed by event_id.b64; a later
\* authorization of the same id replaces an earlier one
AuthMapHas(events, id) ==
    \E i \in 1..Len(events) : IsAuthorization(events[i]) /\ events[i].event_id.b64 = id.b64
AuthMapGet(events, id) ==
    events[CHOOSE i \in 1..Len(events) :
              /\ IsAuthorization(events[i]) /\ events[i].event_id.b64 = id.b64
              /\ \A j \in (i + 1)..Len(events) :
                     ~(IsAuthorization(events[j]) /\ events[j].event_id.b64 = id.b64)]

\* second pass (verify.rs 36-133): the verdict of each event; the command fails
\* when the authorization of an execution is not in auth_map
VerifyRun(events) ==
    IF \E i \in 1..Len(events) :
           ~IsAuthorization(events[i]) /\ ~AuthMapHas(events, events[i].auth_event_id)
    THEN [ok |-> FALSE, results |-> <<>>]
    ELSE [ok |-> TRUE,
          results |-> [i \in 1..Len(events) |->
              IF IsAuthorization(events[i])
              THEN [event_type |-> "authorization", verdict |-> verify_authorization(events[i])]
              ELSE [event_type |-> "execution",
                    verdict |-> verify_execution(events[i],
                                                 AuthMapGet(events, events[i].auth_event_id),
                                                 None)]]]

\* the events of the journals: an allow and a deny, executions under each within
\* and above the cap, and an execution of an authorization that is in no journal
VerifyGrant == Grant(<<"t1">>, <<Meter("tokens.input", QInt(Str(10)))>>)
VerifyAuthorizations ==
    {AuthorizationEvent(TRUE, "authorization", "1", decision, VerifyGrant) :
        decision \in {"allow", "deny"}}
VerifyEvents ==
    VerifyAuthorizations
    \cup {LinkedExecution(au, <<Meter("tokens.input", QInt(Str(n)))>>,
                          [outcome |-> "success", error_code |-> None],
                          [model_id |-> None, provider |-> None]) :
              au \in VerifyAuthorizations, n \in {5, 15}}
    \cup {ExecutionEvent(TRUE, "execution", "1", ForeignId, Intent1, "t1", <<>>,
                         [outcome |-> "success", error_code |-> None],
                         [model_id |-> None, provider |-> None], None)}

VerifyCmdInit ==
    /\ file = <<>> /\ wpc = "none" /\ wpos = 0 /\ wbuf = <<>> /\ wpayload = <<>>
    /\ header_written = FALSE /\ wres = "ok" /\ base = <<>>
    /\ cut = 0 /\ sessions = 0 /\ nbase = 0 /\ wappend = TRUE
    /\ rpc = "none" /\ rmode = "Strict" /\ position = 0 /\ rframe = NoFrame /\ rout = <<>>
    /\ journal \in UNION {[1..n -> VerifyEvents] : n \in 0..MaxRecords}
    /\ exec = NoEvent /\ auth = NoEvent /\ conv = None /\ event = NoEvent
    /\ verdict = NoVerdict

\* verify JOURNAL [--strict]
CmdVerify(strict) ==
    /\ verdict = NoVerdict
    /\ LET r == VerifyRun(journal)
       IN  verdict' = [verdict |-> "verified", run |-> r,
                       exit |-> IF ~r.ok THEN 1
                                ELSE IF strict /\ \E i \in 1..Len(r.results) :
                                                      r.results[i].verdict # "Ok"
                                THEN 1 ELSE 0]
    /\ UNCHANGED <<exec, auth, conv, event>>
    /\ UNCHANGED jvars

VerifyCmdNext == \E strict \in BOOLEAN : CmdVerify(strict)

VerifyCmdSpec == VerifyCmdInit /\ [][VerifyCmdNext]_vars

(***************************************************************************)
(* What the history says a reader should see.                              *)
(***************************************************************************)
IsEventRec(r) == r.kind = FRAME_KIND_EVENT_JSON

\* every EventJson record of the history came from append_event
Clean(recs) == \A i \in 1..Len(recs) : IsEventRec(recs[i]) => recs[i].via = "event"

RECURSIVE EventsOf(_)
EventsOf(recs) ==
    IF recs = <<>> THEN <<>>
    ELSE (IF IsEventRec(recs[1]) THEN <<recs[1].ev>> ELSE <<>>) \o EventsOf(Tail(recs))

\* rout is: the events evs in order, then (if there was a further call) a result of tag endtag
ReturnsThen(evs, endtag) ==
    \A i \in 1..Len(rout) :
        /\ i <= Len(evs) => rout[i] = Result("Some", evs[i])
        /\ i = Len(evs) + 1 => rout[i] = Result(endtag, NoEvent)

\* ... and None on every call after the events
ReturnsThenNone(evs) ==
    \A i \in 1..Len(rout) :
        rout[i] = IF i <= Len(evs) THEN Result("Some", evs[i]) ELSE Result("None", NoEvent)

(***************************************************************************)
(* Claims.                                                                 *)
(***************************************************************************)

\* C1: events appended with append_event to a writer on a new file and flushed with
\* finish are returned by a Strict reader exactly, in order, and then None.
C1_RoundTrip ==
    (/\ sessions = 1
     /\ cut = 0
     /\ rpc = "idle"
     /\ rmode = "Strict"
     /\ \A i \in 1..Len(journal) : journal[i].via = "event")
    => ReturnsThenNone([i \in 1..Len(journal) |-> journal[i].ev])

C1_Witness ==
    /\ sessions = 1
    /\ cut = 0
    /\ rpc = "idle"
    /\ rmode = "Strict"
    /\ Len(journal) = 2
    /\ journal[1].via = "event"
    /\ journal[2].via = "event"
    /\ journal[1].ev # journal[2].ev
    /\ Len(rout) = 3
    /\ rout[3].tag = "None"

\* what the claims expect of a reader that meets a cut record
ExpectedAtCut == IF rmode = "Strict" THEN "TruncatedFrame" ELSE "None"

\* the records that lie entirely within the file after the cut
CompleteAfterCut ==
    IF cut <= LastFrameSize - 1 \/ cut = LastFrameSize
    THEN SubSeq(journal, 1, Len(journal) - 1)
    ELSE SubSeq(journal, 1, Len(journal) - 2)

\* C2 as stated: after deleting k trailing bytes, 1 <= k <= last frame + 1, a Permissive
\* reader returns a prefix of the written events and then None, a Strict reader
\* returns a prefix and then fails with TruncatedFrame.
C2_AsStated ==
    (cut > 0 /\ Clean(journal) /\ rpc = "idle")
    => \E m \in 0..Len(EventsOf(journal)) :
           ReturnsThen(SubSeq(EventsOf(journal), 1, m), ExpectedAtCut)

\* C2 amended: the same, for every k that leaves the file header whole, except that
\* when k is exactly the size of the last record's frame the cut falls on a record
\* boundary and both modes return None after the prefix; when the cut reaches into
\* the file header the reader cannot be opened.
C2_Truncation ==
    (cut > 0 /\ Clean(journal))
    => IF Len(journal) = 1 /\ cut = LastFrameSize + 1
       THEN rpc \in {"none", "failed"}
       ELSE /\ rpc # "failed"
            /\ rpc = "idle" =>
                 ReturnsThen(EventsOf(CompleteAfterCut),
                             IF cut = LastFrameSize THEN "None" ELSE ExpectedAtCut)

C2_Witness ==
    /\ cut > 0
    /\ cut < LastFrameSize
    /\ Clean(journal)
    /\ rmode = "Strict"
    /\ Len(rout) = 2
    /\ rout[1].tag = "Some"
    /\ rout[2].tag = "TruncatedFrame"

\* C3: a writer that reopens an existing journal with append=true leaves the bytes
\* that were in the file a prefix of the file, and a Strict reader returns the
\* earlier events followed by the newly appended ones in append order.
C3_AppendOnly ==
    (sessions >= 2 /\ wappend /\ cut = 0 /\ wpc \in {"idle", "finished"})
    => /\ IsPrefix(base, file)
       /\ (rpc = "idle" /\ rmode = "Strict" /\ Clean(journal))
          => ReturnsThenNone(EventsOf(SubSeq(journal, 1, nbase))
                             \o EventsOf(SubSeq(journal, nbase + 1, Len(journal))))

C3_Witness ==
    /\ sessions = 2
    /\ wappend
    /\ cut = 0
    /\ nbase = 1
    /\ Len(journal) = 2
    /\ Clean(journal)
    /\ IsEventRec(journal[1])
    /\ IsEventRec(journal[2])
    /\ Len(base) > HEADER_SIZE
    /\ rmode = "Strict"
    /\ Len(rout) = 3

\* the results of read_event calls repeated on file f until one is not an event
RECURSIVE ReadAll(_, _, _)
ReadAll(f, pos, mode) ==
    LET r == ReadEvent(f, pos, mode)
    IN  IF r.tag = "Some"
        THEN <<Result(r.tag, r.ev)>> \o ReadAll(f, r.pos, mode)
        ELSE <<Result(r.tag, r.ev)>>

\* the record boundaries of the file: offsets where a frame starts or the file ends
RECURSIVE SizeOf(_)
SizeOf(recs) ==
    IF recs = <<>> THEN 0
    ELSE FRAME_HEADER_SIZE + Len(recs[1].payload) + SizeOf(Tail(recs))

Boundaries ==
    {HEADER_SIZE + SizeOf(SubSeq(journal, 1, n)) : n \in 0..Len(journal)}

\* well-formed frames of unknown kind: reserved bytes zero, several lengths and payloads
InsertedFrames ==
    {FrameBytes(kind, payload) :
        kind \in {0, 2, UnknownKind},
        payload \in {<<>>, <<0>>, ToVec(JNum(1)),
                     FrameBytes(FRAME_KIND_EVENT_JSON, ToVec(JNum(1)))}}

InsertAt(f, b, bytes) == Take(f, b) \o bytes \o Drop(f, b)

\* C5: inserting a well-formed frame of unknown kind at a record boundary of a journal
\* does not change the sequence of results of read_event, in either mode.
C5_UnknownSkipped ==
    (wpc = "finished" /\ rpc = "none" /\ cut = 0)
    => \A b \in Boundaries, u \in InsertedFrames, mode \in {"Strict", "Permissive"} :
           ReadAll(InsertAt(file, b, u), HEADER_SIZE, mode) = ReadAll(file, HEADER_SIZE, mode)

\* a journal with a frame of unknown kind before an event, read to the end
C5_Witness ==
    /\ cut = 0
    /\ Len(journal) = 2
    /\ journal[1].kind = UnknownKind
    /\ journal[1].payload # <<>>
    /\ journal[2].via = "event"
    /\ rout = <<Result("Some", journal[2].ev), Result("None", NoEvent)>>

\* C4: a reader working while the single writer appends returns, in order, a prefix of
\* the events appended, and apart from events its calls return only None
\* (Permissive) or TruncatedFrame (Strict).
C4_ConsistentPrefix ==
    (Clean(journal) /\ rpc \in {"idle", "header", "payload"})
    => /\ \A i \in 1..Len(rout) :
              rout[i].tag \in {"Some", IF rmode = "Strict" THEN "TruncatedFrame" ELSE "None",
                               "None"}
       /\ LET got == SelectSeq(rout, LAMBDA r : r.tag = "Some")
          IN  IsPrefix([i \in 1..Len(got) |-> got[i].ev], EventsOf(journal))

(***************************************************************************)
(* Claims about verify_execution and verify_authorization.                 *)
(***************************************************************************)
Verified == verdict # NoVerdict
ExecutionVerified == Verified /\ exec # NoEvent
CheckpointVerified == Verified /\ event # NoEvent /\ "chain_tip_height" \in DOMAIN event
AuthorizationVerified == Verified /\ exec = NoEvent /\ auth # NoEvent

\* a check of verify_execution other than the bounds check yields Invalid
StructurallyInvalid ==
    \/ exec.event_id # compute_event_id(exec)
    \/ exec.event_type # "execution"
    \/ exec.event_version # "1"
    \/ exec.auth_event_id # auth.event_id
    \/ exec.intents.intent_digest # auth.intents.intent_digest
    \/ auth.decision = "deny"
    \/ /\ exec.pricing_snapshot_digest.some
       /\ conv.some
       /\ exec.pricing_snapshot_digest.v # compute_snapshot_digest(conv.v)
    \/ /\ auth.authorization.kind = "action"
       /\ exec.tool_name # auth.authorization.action.tool_name
    \/ exec.outcome = "failure" /\ ~exec.error_code.some

\* the caps the execution is held to
CapsInForce ==
    IF auth.authorization.kind = "grant" THEN auth.authorization.bounds.meter_caps
    ELSE IF auth.authorization.action.meter_reservation.some
    THEN auth.authorization.action.meter_reservation.v
    ELSE <<>>

UsedOutcome(i) == MeterOutcome(exec.meter_used[i], CapsInForce, exec, conv)
SomeMeterExceeds == \E i \in 1..Len(exec.meter_used) : UsedOutcome(i) = "violation"
SomeEvidenceMissing == \E i \in 1..Len(exec.meter_used) : UsedOutcome(i) = "missing"

\* C6: verify_execution returns Invalid whenever the authorization's decision is
\* deny, or exec.auth_event_id differs from auth.event_id, or the intent digests
\* differ, whatever the tool, meters, outcome or conversion context
C6_BrokenLinkInvalid ==
    (/\ ExecutionVerified
     /\ \/ auth.decision = "deny"
        \/ exec.auth_event_id # auth.event_id
        \/ exec.intents.intent_digest # auth.intents.intent_digest)
    => verdict.verdict = "Invalid"

\* an execution against a deny that passes every other check, with a meter
\* above its cap, is Invalid
C6_Witness ==
    /\ ExecutionVerified
    /\ auth.decision = "deny"
    /\ exec.event_id = compute_event_id(exec)
    /\ exec.event_type = "execution" /\ exec.event_version = "1"
    /\ exec.auth_event_id = auth.event_id
    /\ exec.intents.intent_digest = auth.intents.intent_digest
    /\ exec.outcome = "success"
    /\ SomeMeterExceeds
    /\ verdict.verdict = "Invalid"

\* C7 as stated: the verdict is Invalid if any check yields Invalid, missing
\* evidence of the bounds check included; otherwise Violation if some used
\* meter exceeds its cap; otherwise Ok
C7_InvalidFirst ==
    ExecutionVerified =>
        verdict.verdict = IF StructurallyInvalid \/ SomeEvidenceMissing THEN "Invalid"
                          ELSE IF SomeMeterExceeds THEN "Violation"
                          ELSE "Ok"

\* C7: the verdict is Invalid if a check other than the bounds check yields
\* Invalid; otherwise Violation if some used meter exceeds its cap; otherwise
\* Invalid if the bounds check misses evidence; otherwise Ok
C7_CombinedVerdict ==
    ExecutionVerified =>
        verdict.verdict = IF StructurallyInvalid THEN "Invalid"
                          ELSE IF SomeMeterExceeds THEN "Violation"
                          ELSE IF SomeEvidenceMissing THEN "Invalid"
                          ELSE "Ok"

\* one meter exceeds its cap, another misses evidence: Violation
C7_Witness ==
    /\ ExecutionVerified
    /\ ~StructurallyInvalid
    /\ SomeMeterExceeds
    /\ SomeEvidenceMissing
    /\ verdict.verdict = "Violation"

\* the verdict the stated order of verify_authorization gives
C8_Ordered(au) ==
    IF au.event_id # compute_event_id(au) THEN "Invalid"
    ELSE IF au.event_type # "authorization" \/ au.event_version # "1" THEN "Invalid"
    ELSE IF au.decision = "deny" THEN "Denied"
    ELSE IF /\ au.authorization.kind = "grant"
            /\ \/ au.authorization.bounds.allowed_tools = <<>>
               \/ au.authorization.bounds.meter_caps = <<>>
    THEN "Invalid"
    ELSE IF /\ au.authorization.kind = "action"
            /\ au.authorization.action.tool_params_digest.alg # "sha-256"
    THEN "Invalid"
    ELSE "Ok"

\* C8: verify_authorization decides in this order: Invalid on an event_id
\* mismatch; Invalid on a wrong event_type or event_version; Denied on a deny;
\* Invalid for a grant with empty allowed_tools or meter_caps; Invalid for an
\* action whose digest is not sha-256; else Ok
C8_AuthorizationOrder ==
    AuthorizationVerified => verdict.verdict = C8_Ordered(auth)

\* a well-formed deny whose grant has no tools and no caps is Denied
C8_Witness ==
    /\ AuthorizationVerified
    /\ auth.event_id = compute_event_id(auth)
    /\ auth.event_type = "authorization" /\ auth.event_version = "1"
    /\ auth.decision = "deny"
    /\ auth.authorization.kind = "grant"
    /\ auth.authorization.bounds.allowed_tools = <<>>
    /\ auth.authorization.bounds.meter_caps = <<>>
    /\ verdict.verdict = "Denied"

\* the integer grammar: "0", or an optional '-' and digits without leading zero
IntGrammar(a) ==
    \/ a = <<48>>
    \/ LET ds == IF a # <<>> /\ a[1] = 45 THEN Tail(a) ELSE a
       IN  /\ ds # <<>>
           /\ \A i \in 1..Len(ds) : ds[i] \in 48..57
           /\ ds[1] # 48

\* the number an integer string of the grammar denotes
IntValue(a) == IF a[1] = 45 THEN 0 - DigitsValue(Tail(a)) ELSE DigitsValue(a)

\* used meter i has a cap of its own unit, both amounts integers of the grammar,
\* and every other check passes
C9_Case(i) ==
    /\ ExecutionVerified
    /\ ~StructurallyInvalid
    /\ auth.authorization.kind = "grant"
    /\ i \in 1..Len(exec.meter_used)
    /\ exec.meter_used[i].unit \in CapUnits(CapsInForce)
    /\ exec.meter_used[i].amount.t = "int"
    /\ CapAmount(CapsInForce, exec.meter_used[i].unit).t = "int"
    /\ IntGrammar(exec.meter_used[i].amount.v)
    /\ IntGrammar(CapAmount(CapsInForce, exec.meter_used[i].unit).v)
    /\ \A j \in 1..Len(exec.meter_used) : j # i => UsedOutcome(j) \in {"ok", "skip"}

C9_Exceeds(i) ==
    IntValue(exec.meter_used[i].amount.v)
        > IntValue(CapAmount(CapsInForce, exec.meter_used[i].unit).v)

\* C9: for a used meter whose unit matches a grant cap, both amounts integers
\* of the grammar and all other checks passing, the verdict is Violation
\* exactly when the used integer is greater than the cap, and Ok exactly when
\* it is less than or equal
C9_IntegerBounds ==
    \A i \in 1..MaxMeters + 1 :
        C9_Case(i) => verdict.verdict = IF C9_Exceeds(i) THEN "Violation" ELSE "Ok"

\* a used integer shorter than the cap but with a greater first digit is Ok
C9_Witness ==
    /\ C9_Case(1)
    /\ Len(exec.meter_used[1].amount.v) < Len(CapsInForce[1].amount.v)
    /\ exec.meter_used[1].amount.v[1] > CapsInForce[1].amount.v[1]
    /\ exec.meter_used[1].amount.v[1] # 45
    /\ CapsInForce[1].amount.v[1] # 45
    /\ verdict.verdict = "Ok"

\* used meter i has no cap of its own unit under a grant with a usd cap, and
\* there is no conversion context or the meter cannot be converted
C10_Case(i) ==
    /\ ExecutionVerified
    /\ auth.authorization.kind = "grant"
    /\ i \in 1..Len(exec.meter_used)
    /\ "usd" \in CapUnits(CapsInForce)
    /\ exec.meter_used[i].unit \notin CapUnits(CapsInForce)
    /\ \/ ~conv.some
       \/ ~convert_to_usd(exec.meter_used[i], exec, conv.v).some

\* C10 as stated: with a usd cap and a used meter that has no direct cap and
\* cannot be converted, verify_execution returns Invalid
C10_UnconvertedInvalid ==
    \A i \in 1..MaxMeters + 1 : C10_Case(i) => verdict.verdict = "Invalid"

\* C10: with a usd cap and a used meter that has no direct cap and cannot be
\* converted, verify_execution never returns Ok: it returns Violation when
\* every other check passes and some used meter exceeds its cap, and Invalid
\* otherwise
C10_UnconvertedNeverOk ==
    \A i \in 1..MaxMeters + 1 :
        C10_Case(i) =>
            verdict.verdict = IF ~StructurallyInvalid /\ SomeMeterExceeds THEN "Violation"
                              ELSE "Invalid"

\* input tokens with no conversion context under a usd cap alone: Invalid
C10_Witness ==
    /\ C10_Case(1)
    /\ ~StructurallyInvalid
    /\ ~SomeMeterExceeds
    /\ ~conv.some
    /\ exec.meter_used[1].unit = "tokens.input"
    /\ verdict.verdict = "Invalid"

C12_StampedVerifies ==
    (verdict.verdict # "none" /\ verdict.stamped) => verdict.verdict = "true"

\* an event that held another event_id before it was stamped verifies
C12_Witness ==
    /\ verdict.verdict = "true"
    /\ verdict.stamped
    /\ Len(event.m) > 1
    /\ event.m[1].k = STR_event_id
    /\ DigestFromValue(event.m[1].v).v = value_compute_event_id(event).id


\* C13 (as stated; violated): every event persisted in the journal carries the
\* event_id computed from it, after any sequence of append_event calls and of
\* the append, checkpoint and gen commands
C13_PersistedIdsVerify ==
    Len(file) >= HEADER_SIZE =>
        \A i \in 1..Len(PersistedEvents(file, HEADER_SIZE)) :
            verify_event_id(PersistedEvents(file, HEADER_SIZE)[i]) = "true"


\* C14 (as stated; violated): append_raw of a payload longer than 16 MiB, lengths
\* of 2^32 and more included, fails with PayloadTooLarge and writes nothing; a
\* payload of exactly 16 MiB is written
C14_OversizeRejected ==
    wpc = "idle" =>
        /\ SizeGreater(wpayload, Size(0, MAX_PAYLOAD_SIZE)) =>
              wres = "PayloadTooLarge" /\ wpos = base
        /\ wpayload = Size(0, MAX_PAYLOAD_SIZE) =>
              wres = "ok" /\ wpos = SizeAdd(SizeAdd(base, Size(0, FRAME_HEADER_SIZE)), wpayload)


\* the file is not empty and is shorter than a header, or its first 16 bytes have
\* a wrong magic, a version other than 1, non-zero flags or non-zero reserved bytes
C15_NotAJournal(f) ==
    /\ Len(f) > 0
    /\ \/ Len(f) < 16
       \/ SubSeq(f, 1, 4) # <<78, 82, 74, 49>>
       \/ SubSeq(f, 5, 6) # <<1, 0>>
       \/ SubSeq(f, 7, 8) # <<0, 0>>
       \/ \E i \in 9..16 : f[i] # 0

\* C15: JournalWriter::open on a non-empty file that is shorter than the header
\* or does not start with a valid header fails and leaves the file as it was,
\* with append true and with append false
C15_BadFileUntouched ==
    (sessions > 0 /\ C15_NotAJournal(base)) =>
        /\ wpc = "failed"
        /\ wres \in {"FileNotEmpty", "InvalidHeader"}
        /\ file = base

C15_Witness ==
    /\ sessions > 0
    /\ ~wappend
    /\ Len(base) > HEADER_SIZE
    /\ Take(base, 8) = Take(HeaderToBytes, 8)
    /\ base[16] # 0
    /\ wpc = "failed"
    /\ file = base


\* the keys of every object of v are held in ascending order
RECURSIVE C16_KeysAscending(_)
C16_KeysAscending(v) ==
    CASE v.t = "obj" ->
           /\ \A i \in 1..(Len(v.m) - 1) : StrCmp(v.m[i].k, v.m[i + 1].k) = "Less"
           /\ \A i \in 1..Len(v.m) : C16_KeysAscending(v.m[i].v)
      [] v.t = "arr" -> \A i \in 1..Len(v.a) : C16_KeysAscending(v.a[i])
      [] OTHER -> TRUE

\* C16: canonicalize gives two structurally equal values the same bytes, and
\* the bytes are those of the value written with the keys of every object in
\* sorted order
C16_OrderInsensitive ==
    verdict.verdict = "canonical" =>
        /\ verdict.value.ok /\ verdict.other.ok
        /\ verdict.value.bytes = verdict.other.bytes
        /\ \E w \in Arrangements(event.value) :
              C16_KeysAscending(w) /\ ToVec(w) = verdict.value.bytes

C16_Witness ==
    /\ verdict.verdict = "canonical"
    /\ Len(event.value.m) > 1
    /\ event.value.m[1].k # event.other.m[1].k
    /\ \E i, j \in 1..Len(event.value.m) :
          /\ event.value.m[i].k = event.other.m[j].k
          /\ event.value.m[i].v # event.other.m[j].v
    /\ verdict.value.bytes = verdict.other.bytes


\* C17 (as stated; violated): every ProfileId, PrincipalId, ToolName and
\* Timestamp the program holds, however it was made, matches the pattern of its
\* type
C17_HeldIdentifiersMatch ==
    event # NoEvent => IsMatch(event.type, event.value)


\* the instant of a valid timestamp: date and time, then the fraction to nine
\* digits; instants of this form are ordered as their strings are
C18_Instant(t) ==
    Take(t, 19) \o [i \in 1..9 |-> IF 20 + i < Len(t) THEN t[20 + i] ELSE 48]

\* instant a is not after instant b
C18_NotAfter(a, b) == StrCmp(C18_Instant(a), C18_Instant(b)) # "Greater"

\* C18 (as stated; violated): for valid timestamps the order of the strings is
\* the order of the instants, so a TimeRangeFilter matches exactly the events
\* whose occurred_at lies in the inclusive range of its bounds
C18_RangeIsChronological ==
    (/\ verdict.verdict = "matches"
     /\ GetStr(event, STR_occurred_at).some
     /\ TimestampPattern(GetStr(event, STR_occurred_at).v)) =>
        (verdict.result <=>
            /\ conv.after.some => C18_NotAfter(conv.after.v.value, GetStr(event, STR_occurred_at).v)
            /\ conv.before.some => C18_NotAfter(GetStr(event, STR_occurred_at).v, conv.before.v.value))


\* the events of the wrapped reader that the filter matches, in their order
C19_Matching == SelectSeq(journal, LAMBDA e : matches(conv, e))

\* C19: the successive results of read_next on a FilteredReader are the events
\* of the wrapped reader that the filter matches, in their order, and then None
C19_MatchingSubsequence ==
    \A i \in 1..Len(rout) :
        IF i <= Len(C19_Matching)
        THEN rout[i] = Result("Some", C19_Matching[i])
        ELSE rout[i] = Result("None", NoEvent)

C19_Witness ==
    /\ Len(journal) >= 2
    /\ ~matches(conv, journal[1])
    /\ matches(conv, journal[2])
    /\ Len(rout) >= 2
    /\ rout[1] = Result("Some", journal[2])
    /\ rout[Len(rout)].tag = "None"


\* the events in the journal when the last checkpoint command read it
C20_Scanned ==
    IF verdict.command = "checkpoint" THEN SubSeq(journal, 1, Len(journal) - 1) ELSE journal

\* C20 (as stated; violated): the checkpoint built from a journal of n >= 1
\* events has chain_tip_height n and the event_id of the n-th event as its
\* chain_tip_event_id, whatever the journal holds
C20_TipIsLastEvent ==
    (verdict.verdict = "ok" /\ verdict.command \in {"checkpoint", "checkpoint --json"}) =>
        /\ Get(event, STR_chain_tip_height).v = JNum(Len(C20_Scanned))
        /\ Get(C20_Scanned[Len(C20_Scanned)].ev, STR_event_id) =
              Some(Get(event, STR_chain_tip_event_id).v)

\* C21 (as stated; violated): parse_event returns no error; an event whose
\* event_type is missing or unrecognized, or that does not deserialize into the
\* struct of its type, becomes TypedEvent::Unknown carrying the JSON
C21_FallsBackToUnknown ==
    verdict.verdict = "parsed" =>
        /\ verdict.result.ok
        /\ (\/ ~GetStr(event, STR_event_type).some
            \/ Variant(GetStr(event, STR_event_type).v) = "Unknown"
            \/ ~FromValueOk(GetStr(event, STR_event_type).v, event)) =>
              verdict.result.variant = "Unknown" /\ verdict.result.json = event

\* used meter i has a cap of its own unit
C22_Direct(i) == \E k \in 1..Len(CapsInForce) : CapsInForce[k].unit = exec.meter_used[i].unit

\* used meter i has no cap of its own unit and there is a usd cap
C22_ViaUsd(i) == ~C22_Direct(i) /\ \E k \in 1..Len(CapsInForce) : CapsInForce[k].unit = "usd"

\* the comparison of used meter i with the cap it is held to
C22_Comparison(i) ==
    IF C22_Direct(i)
    THEN compare_quantities(exec.meter_used[i].amount,
                            CapAmount(CapsInForce, exec.meter_used[i].unit))
    ELSE IF C22_ViaUsd(i) /\ conv.some /\ convert_to_usd(exec.meter_used[i], exec, conv.v).some
    THEN compare_quantities(convert_to_usd(exec.meter_used[i], exec, conv.v).v,
                            CapAmount(CapsInForce, "usd"))
    ELSE "None"

C22_Exceeds(i) == C22_Comparison(i) = "ExceedsBounds"

C22_Missing(i) ==
    \/ C22_Comparison(i) = "Invalid"
    \/ C22_ViaUsd(i) /\ C22_Comparison(i) = "None"

\* the used meters that have a cap of their unit or a usd cap to be held to
C22_Capped ==
    SelectSeq(exec.meter_used,
              LAMBDA m : \E k \in 1..Len(CapsInForce) : CapsInForce[k].unit \in {m.unit, "usd"})

\* C22: when every other check passes, the verdict is Violation if any used
\* meter exceeds its cap, whatever its place among the meters, otherwise Invalid
\* if any meter misses evidence, otherwise Ok; used meters with neither a cap of
\* their unit nor a usd cap do not change the result
C22_EveryMeterExamined ==
    (ExecutionVerified /\ ~StructurallyInvalid) =>
        /\ verdict.verdict =
              IF \E i \in 1..Len(exec.meter_used) : C22_Exceeds(i) THEN "Violation"
              ELSE IF \E i \in 1..Len(exec.meter_used) : C22_Missing(i) THEN "Invalid"
              ELSE "Ok"
        /\ verdict.verdict = check_meter_bounds(C22_Capped, CapsInForce, exec, conv)

\* a meter that is held to a cap and stays within it, then one without any cap: Ok
C22_Witness ==
    /\ ExecutionVerified
    /\ ~StructurallyInvalid
    /\ Len(exec.meter_used) = 2
    /\ C22_Direct(1)
    /\ ~C22_Direct(2) /\ ~C22_ViaUsd(2)
    /\ verdict.verdict = "Ok"

\* a meter within its cap, then one that exceeds its cap: Violation
C22_WitnessLast ==
    /\ ExecutionVerified
    /\ ~StructurallyInvalid
    /\ Len(exec.meter_used) = 2
    /\ C22_Comparison(1) = "WithinBounds"
    /\ C22_Exceeds(2)
    /\ verdict.verdict = "Violation"

RECURSIVE Pow10(_)
Pow10(k) == IF k = 0 THEN 1 ELSE 10 * Pow10(k - 1)

\* the mantissa of a dec quantity brought to the larger scale of the two compared
C23_Scaled(q) ==
    ParseInt(q.m).v * Pow10((IF exec.s > auth.s THEN exec.s ELSE auth.s) - q.s)

\* C23: two dec quantities compare WithinBounds exactly when
\* used_m * 10^-used_s <= cap_m * 10^-cap_s, and ExceedsBounds otherwise
C23_DecComparesValues ==
    (verdict.verdict = "compared" /\ exec.t = "dec") =>
        verdict.result = IF C23_Scaled(exec) <= C23_Scaled(auth) THEN "WithinBounds"
                         ELSE "ExceedsBounds"

\* an integer of any length, from its string
C24_Big(a) ==
    LET mag == ToLimbs(IF a[1] = 45 THEN Tail(a) ELSE a)
    IN  [neg |-> a[1] = 45 /\ mag # <<0>>, mag |-> mag]

C24_Product(x, y) ==
    [neg |-> x.neg # y.neg /\ NatMul(x.mag, y.mag) # <<0>>, mag |-> NatMul(x.mag, y.mag)]

\* C24: two rat quantities compare WithinBounds exactly when n1*d2 <= n2*d1, and
\* ExceedsBounds otherwise, whatever the length of the digit strings
C24_RatComparesProducts ==
    (verdict.verdict = "compared" /\ exec.t = "rat") =>
        verdict.result =
            IF I128Cmp(C24_Product(C24_Big(exec.n), C24_Big(auth.d)),
                       C24_Product(C24_Big(auth.n), C24_Big(exec.d))) # "Greater"
            THEN "WithinBounds" ELSE "ExceedsBounds"

\* the frames one read_event call skips or returns, from position pos
RECURSIVE C25_FramesExamined(_, _, _)
C25_FramesExamined(f, pos, mode) ==
    IF ReadFrame(f, pos, mode).tag # "Frame" THEN 0
    ELSE IF ReadFrame(f, pos, mode).kind = FRAME_KIND_EVENT_JSON THEN 1
    ELSE 1 + C25_FramesExamined(f, ReadFrame(f, pos, mode).pos, mode)

\* C25: a frame read at any place of the file advances position by at least
\* the 8 bytes of its header and not past the end of the file, so that
\* read_event returns an event, None or an error after at most
\* (file_size - 16) / 8 frames
C25_ReadEventTerminates ==
    rpc = "idle" =>
        /\ \A p \in HEADER_SIZE..Len(file) :
               ReadFrame(file, p, rmode).tag = "Frame" =>
                   /\ ReadFrame(file, p, rmode).pos >= p + FRAME_HEADER_SIZE
                   /\ ReadFrame(file, p, rmode).pos <= Len(file)
        /\ C25_FramesExamined(file, position, rmode) <= (Len(file) - HEADER_SIZE) \div 8
        /\ ReadEvent(file, position, rmode).tag
               \in {"Some", "None", "TruncatedFrame", "InvalidFrame", "InvalidUtf8", "JsonParse"}

\* a read_event call that skipped a frame of unknown kind and returned the
\* event of the next frame
C25_Witness ==
    /\ rpc = "idle"
    /\ Len(rout) = 1 /\ rout[1].tag = "Some"
    /\ Len(journal) = 2 /\ journal[1].kind = UnknownKind
    /\ C25_FramesExamined(file, HEADER_SIZE, rmode) = 2
    /\ position = Len(file)

\* C26: in Permissive mode, on a file that does not change, every read_event
\* call after one that returned None returns None
C26_NoneIsFinal ==
    (rpc = "idle" /\ rmode = "Permissive") =>
        \A i \in 1..Len(rout) : \A j \in i..Len(rout) :
            rout[i].tag = "None" => rout[j].tag = "None"

\* C27: after a writer has opened a journal that ends in a partial record with
\* append and has appended events, a reader returns the complete events
\* before the partial record and the appended ones, in order
C27_AppendAfterPartial ==
    (rpc = "idle" /\ Len(journal) > nbase) =>
        \A i \in 1..Len(rout) :
            i <= Len(journal) => rout[i] = Result("Some", journal[i].ev)

\* what used meter i is charged against the cap of a unit: its amount if it is
\* of that unit, its amount in USD if the cap is the usd cap and the meter has
\* no cap of its own unit
C28_Charge(i, unit) ==
    LET meter == exec.meter_used[i]
    IN  IF meter.unit = unit THEN ParseInt(meter.amount.v).v
        ELSE IF unit = "usd" /\ meter.unit \notin CapUnits(CapsInForce) /\ conv.some
                /\ convert_to_usd(meter, exec, conv.v).some
        THEN ParseInt(convert_to_usd(meter, exec, conv.v).v.v).v
        ELSE 0

RECURSIVE C28_Total(_, _)
C28_Total(n, unit) == IF n = 0 THEN 0 ELSE C28_Total(n - 1, unit) + C28_Charge(n, unit)

\* C28: when verify_execution returns Ok under a grant, the total of the used
\* meters charged against a cap does not exceed the cap
C28_TotalsWithinCaps ==
    (ExecutionVerified /\ auth.authorization.kind = "grant" /\ verdict.verdict = "Ok") =>
        \A k \in 1..Len(CapsInForce) :
            C28_Total(Len(exec.meter_used), CapsInForce[k].unit)
                <= ParseInt(CapAmount(CapsInForce, CapsInForce[k].unit).v).v

\* the members of an event other than its top-level event_id
C29_Fields(ev) == {ev.m[i] : i \in {j \in 1..Len(ev.m) : ev.m[j].k # STR_event_id}}

\* C29: two events that differ in a field other than the top-level event_id do
\* not get the same event_id
C29_DistinctEventsDistinctIds ==
    (verdict.verdict = "ids" /\ verdict.first.ok /\ verdict.second.ok
     /\ C29_Fields(event) # C29_Fields(auth)) =>
        verdict.first.id # verdict.second.id

\* C30: the verify command gives an execution the verdict Ok only if an
\* authorization with the auth_event_id it refers to is at an earlier place of
\* the journal
C30_AuthorizationPrecedes ==
    (verdict.verdict = "verified" /\ verdict.run.ok) =>
        \A i \in 1..Len(journal) :
            (~IsAuthorization(journal[i]) /\ verdict.run.results[i].verdict = "Ok") =>
                \E j \in 1..(i - 1) :
                    /\ IsAuthorization(journal[j])
                    /\ journal[j].event_id = journal[i].auth_event_id

====
